---- MODULE Spec2Model ----
(***************************************************************************)
(* PROwl: the diff compression and importance-scoring engine of the intake *)
(* service (intake/compression) together with the Redis cache it talks to. *)
(*                                                                         *)
(* Representation                                                          *)
(*  - a path is a string;                                                  *)
(*  - a patch is kept in its split('\n') form: a non-empty sequence of     *)
(*    lines ('' is <<Ln("")>>).  A line is [s, pad]: the text s followed   *)
(*    by pad filler characters "x" (long lines are not spelled out);       *)
(*  - scores are integers in thousandths, language priorities in tenths;   *)
(*  - budget fractions are integers in percent.                            *)
(***************************************************************************)
EXTENDS Integers, Sequences, FiniteSets, TLC

\* ------------------------------------------------------------------------
\* Strings
\* ------------------------------------------------------------------------
startswith(s, p) == Len(s) >= Len(p) /\ SubSeq(s, 1, Len(p)) = p

endswith(s, p) == Len(s) >= Len(p) /\ SubSeq(s, Len(s) - Len(p) + 1, Len(s)) = p

\* Python's  p in s
contains(s, p) == \E i \in 1..(Len(s) - Len(p) + 1) : SubSeq(s, i, i + Len(p) - 1) = p

UpperToLower ==
  [c \in {"A","B","C","D","E","F","G","H","I","J","K","L","M","N","O","P","Q",
          "R","S","T","U","V","W","X","Y","Z"} |->
     CASE c = "A" -> "a" [] c = "B" -> "b" [] c = "C" -> "c" [] c = "D" -> "d"
       [] c = "E" -> "e" [] c = "F" -> "f" [] c = "G" -> "g" [] c = "H" -> "h"
       [] c = "I" -> "i" [] c = "J" -> "j" [] c = "K" -> "k" [] c = "L" -> "l"
       [] c = "M" -> "m" [] c = "N" -> "n" [] c = "O" -> "o" [] c = "P" -> "p"
       [] c = "Q" -> "q" [] c = "R" -> "r" [] c = "S" -> "s" [] c = "T" -> "t"
       [] c = "U" -> "u" [] c = "V" -> "v" [] c = "W" -> "w" [] c = "X" -> "x"
       [] c = "Y" -> "y" [] c = "Z" -> "z"]

RECURSIVE lower(_)
lower(s) ==
  IF Len(s) = 0 THEN ""
  ELSE LET c == SubSeq(s, 1, 1)
       IN (IF c \in DOMAIN UpperToLower THEN UpperToLower[c] ELSE c)
          \o lower(SubSeq(s, 2, Len(s)))

\* sum(seq[lo..hi])
RECURSIVE SumRange(_, _, _)
SumRange(seq, lo, hi) ==
  IF lo > hi THEN 0
  ELSE IF lo = hi THEN seq[lo]
  ELSE LET mid == (lo + hi) \div 2
       IN SumRange(seq, lo, mid) + SumRange(seq, mid + 1, hi)

SumSeq(seq) == SumRange(seq, 1, Len(seq))

\* ------------------------------------------------------------------------
\* utils.py: LanguageDetector
\* ------------------------------------------------------------------------
EXTENSIONS ==
  << <<".py", "python">>, <<".java", "java">>, <<".c", "c">>, <<".cpp", "cpp">>,
     <<".cc", "cpp">>, <<".h", "c">>, <<".hpp", "cpp">>, <<".go", "go">>,
     <<".rs", "rust">>, <<".swift", "swift">>, <<".kt", "kotlin">>,
     <<".js", "javascript">>, <<".jsx", "javascript">>, <<".ts", "typescript">>,
     <<".tsx", "typescript">>, <<".rb", "ruby">>, <<".php", "php">>,
     <<".pl", "perl">>, <<".sh", "shell">>, <<".bash", "shell">>,
     <<".html", "html">>, <<".htm", "html">>, <<".css", "css">>,
     <<".scss", "scss">>, <<".sass", "sass">>, <<".vue", "vue">>,
     <<".json", "json">>, <<".yaml", "yaml">>, <<".yml", "yaml">>,
     <<".xml", "xml">>, <<".toml", "toml">>, <<".ini", "ini">>,
     <<".md", "markdown">>, <<".rst", "restructuredtext">>, <<".txt", "text">>,
     <<".sql", "sql">>, <<".graphql", "graphql">> >>

\* the first extension, in table order, the path ends with
detect(filepath) ==
  LET hits == {i \in 1..Len(EXTENSIONS) : endswith(filepath, EXTENSIONS[i][1])}
  IN IF hits = {} THEN "unknown"
     ELSE EXTENSIONS[CHOOSE i \in hits : \A j \in hits : i <= j][2]

\* ------------------------------------------------------------------------
\* utils.py: FileClassifier
\* ------------------------------------------------------------------------
CRITICAL_PATTERNS ==
  {"auth", "security", "crypto", "password", "token",
   "session", "jwt", "oauth", "permission", "acl",
   "payment", "billing", "invoice", "transaction",
   "checkout", "cart", "order",
   "migration", "schema", "model", "database",
   "api/", "/api/", "routes/", "endpoint", "controller",
   "graphql", "rest",
   "middleware", "interceptor", "filter",
   "config/production", "config/prod"}

TEST_PATTERNS ==
  {"test_", "_test.", "test/", "/test/",
   "tests/", "/tests/", "spec/", "/spec/",
   "__tests__/", "*.test.", "*.spec."}

DOC_PATTERNS ==
  {"README", "CHANGELOG", "CONTRIBUTING",
   "LICENSE", "docs/", "/docs/",
   ".md", ".rst", ".txt"}

GENERATED_PATTERNS ==
  {"package-lock.json", "yarn.lock", "Gemfile.lock",
   "Pipfile.lock", "poetry.lock",
   "node_modules/", "vendor/", "dist/", "build/",
   ".min.js", ".min.css"}

is_critical(filepath) ==
  LET path_lower == lower(filepath)
  IN \E pattern \in CRITICAL_PATTERNS : contains(path_lower, pattern)

\* variant: the path is compared as it is
is_test_Raw(filepath) == \E pattern \in TEST_PATTERNS : contains(filepath, pattern)

is_test(filepath) ==
  LET path_lower == lower(filepath)
  IN \E pattern \in TEST_PATTERNS : contains(path_lower, pattern)

is_doc(filepath) == \E pattern \in DOC_PATTERNS : contains(filepath, pattern)

is_generated(filepath) == \E pattern \in GENERATED_PATTERNS : contains(filepath, pattern)

\* ------------------------------------------------------------------------
\* Patch text
\* ------------------------------------------------------------------------
Ln(s) == [s |-> s, pad |-> 0]

Pad(s, n) == [s |-> s, pad |-> n]

LineLen(line) == Len(line.s) + line.pad

\* the first k characters of a line (filler is "x")
RECURSIVE Filler(_)
Filler(n) == IF n <= 0 THEN "" ELSE "x" \o Filler(n - 1)

LineHead(line, k) ==
  IF Len(line.s) >= k THEN SubSeq(line.s, 1, k)
  ELSE line.s \o Filler(IF line.pad < k - Len(line.s) THEN line.pad ELSE k - Len(line.s))

line_startswith(line, p) == LineHead(line, Len(p)) = p

RECURSIVE SumLineLen(_, _)
SumLineLen(lines, i) ==
  IF i > Len(lines) THEN 0 ELSE LineLen(lines[i]) + SumLineLen(lines, i + 1)

\* len(text) of the patch whose split('\n') is lines
TextLen(lines) == SumLineLen(lines, 1) + (Len(lines) - 1)

\* variant: every line is ended by a newline, the last one too
join_Terminated(lines) == lines \o <<Ln("")>>

\* '\n'.join(lines) in split form: joining no line at all gives '', whose
\* split('\n') is the single empty line
join(lines) == IF lines = <<>> THEN <<Ln("")>> ELSE lines

\* patch.split('\n')
split(patch) == patch

\* ------------------------------------------------------------------------
\* utils.py: TokenCounter
\* ------------------------------------------------------------------------
\* the tokenizer is a third-party encoder; count() is modelled by its
\* fallback estimate len(text) // 4
count(text) == TextLen(text) \div 4

\* ------------------------------------------------------------------------
\* utils.py: PatchProcessor
\* ------------------------------------------------------------------------
\* variant: a +++ line counts as an addition
RECURSIVE HunkLoop_AnyPlus(_, _, _, _, _, _)
HunkLoop_AnyPlus(lines, i, result, current_hunk, in_hunk, hunk_has_additions) ==
  IF i > Len(lines)
  THEN IF in_hunk /\ hunk_has_additions THEN result \o current_hunk ELSE result
  ELSE LET line == lines[i] IN
       IF line_startswith(line, "@@")
       THEN HunkLoop_AnyPlus(lines, i + 1,
                     IF in_hunk /\ hunk_has_additions THEN result \o current_hunk ELSE result,
                     <<line>>, TRUE, FALSE)
       ELSE IF in_hunk
       THEN HunkLoop_AnyPlus(lines, i + 1, result, Append(current_hunk, line), TRUE,
                     hunk_has_additions \/ line_startswith(line, "+"))
       ELSE HunkLoop_AnyPlus(lines, i + 1, Append(result, line), current_hunk, FALSE,
                     hunk_has_additions)

\* the loop of remove_deletion_only_hunks from line i on
RECURSIVE HunkLoop(_, _, _, _, _, _)
HunkLoop(lines, i, result, current_hunk, in_hunk, hunk_has_additions) ==
  IF i > Len(lines)
  THEN \* don't forget last hunk
       IF in_hunk /\ hunk_has_additions THEN result \o current_hunk ELSE result
  ELSE LET line == lines[i] IN
       IF line_startswith(line, "@@")
       THEN HunkLoop(lines, i + 1,
                     IF in_hunk /\ hunk_has_additions THEN result \o current_hunk ELSE result,
                     <<line>>, TRUE, FALSE)
       ELSE IF in_hunk
       THEN HunkLoop(lines, i + 1, result, Append(current_hunk, line), TRUE,
                     hunk_has_additions
                       \/ (line_startswith(line, "+") /\ ~line_startswith(line, "+++")))
       ELSE HunkLoop(lines, i + 1, Append(result, line), current_hunk, FALSE,
                     hunk_has_additions)

\* variant: the hunk open at the end of the patch is not flushed
RECURSIVE HunkLoop_NoFlush(_, _, _, _, _, _)
HunkLoop_NoFlush(lines, i, result, current_hunk, in_hunk, hunk_has_additions) ==
  IF i > Len(lines) THEN result
  ELSE LET line == lines[i] IN
       IF line_startswith(line, "@@")
       THEN HunkLoop_NoFlush(lines, i + 1,
                     IF in_hunk /\ hunk_has_additions THEN result \o current_hunk ELSE result,
                     <<line>>, TRUE, FALSE)
       ELSE IF in_hunk
       THEN HunkLoop_NoFlush(lines, i + 1, result, Append(current_hunk, line), TRUE,
                     hunk_has_additions
                       \/ (line_startswith(line, "+") /\ ~line_startswith(line, "+++")))
       ELSE HunkLoop_NoFlush(lines, i + 1, Append(result, line), current_hunk, FALSE,
                     hunk_has_additions)

remove_deletion_only_hunks_NoFlush(patch) ==
  join(HunkLoop_NoFlush(split(patch), 1, <<>>, <<>>, FALSE, FALSE))

remove_deletion_only_hunks(patch) ==
  join(HunkLoop(split(patch), 1, <<>>, <<>>, FALSE, FALSE))

\* variant: the stub treats the patch like that of any other file
expand_context_Stripped(patch) == remove_deletion_only_hunks(patch)

expand_context(patch) == patch

\* regular expressions of extract_function_signatures
WordChars ==
  {"a","b","c","d","e","f","g","h","i","j","k","l","m","n","o","p","q","r","s",
   "t","u","v","w","x","y","z","0","1","2","3","4","5","6","7","8","9","_"}
    \cup DOMAIN UpperToLower

SpaceChars == {" ", "\t"}

CharAt(s, i) == IF i >= 1 /\ i <= Len(s) THEN SubSeq(s, i, i) ELSE ""

\* the position after the longest run of characters of class cls from i
RECURSIVE SkipRun(_, _, _)
SkipRun(s, i, cls) == IF CharAt(s, i) \in cls THEN SkipRun(s, i + 1, cls) ELSE i

Literal(s, i, lit) == i + Len(lit) - 1 <= Len(s) /\ SubSeq(s, i, i + Len(lit) - 1) = lit

AfterPlus(s) == IF startswith(s, "+") THEN 2 ELSE 1

NoMatch == [ok |-> FALSE, sig |-> ""]

\* kw \s+ (\w+) \s* tail \(   from position i; tail is "" or "=" \s*
MatchKeywordName(s, i, kw, tail) ==
  IF ~Literal(s, i, kw) THEN NoMatch
  ELSE LET a == i + Len(kw)
           b == SkipRun(s, a, SpaceChars)
           c == SkipRun(s, b, WordChars)
           d == SkipRun(s, c, SpaceChars)
           e == IF tail = "" THEN d
                ELSE IF Literal(s, d, tail) THEN SkipRun(s, d + Len(tail), SpaceChars) ELSE 0
       IN IF b > a /\ c > b /\ e > 0 /\ CharAt(s, e) = "("
          THEN [ok |-> TRUE, sig |-> SubSeq(s, b, c - 1)] ELSE NoMatch

\* ^\+?def\s+(\w+)\s*\(
MatchPython(s) == MatchKeywordName(s, AfterPlus(s), "def", "")

\* ^\+?function\s+(\w+)\s*\(|^\+?const\s+(\w+)\s*=\s*\(
MatchJavascript(s) ==
  LET f == MatchKeywordName(s, AfterPlus(s), "function", "")
  IN IF f.ok THEN f ELSE MatchKeywordName(s, AfterPlus(s), "const", "=")

\* \s*\w+\s+(\w+)\s*\(   from position i
MatchJavaRest(s, i) ==
  LET a == SkipRun(s, i, SpaceChars)
      b == SkipRun(s, a, WordChars)
      c == SkipRun(s, b, SpaceChars)
      d == SkipRun(s, c, WordChars)
      e == SkipRun(s, d, SpaceChars)
  IN IF b > a /\ c > b /\ d > c /\ CharAt(s, e) = "("
     THEN [ok |-> TRUE, sig |-> SubSeq(s, c, d - 1)] ELSE NoMatch

\* ^\+?\s*(public|private|protected)?\s*\w+\s+(\w+)\s*\(
\* sig = match.group(1) or match.group(2)
MatchJava(s) ==
  LET a == SkipRun(s, AfterPlus(s), SpaceChars)
      mods == {m \in {"public", "private", "protected"} : Literal(s, a, m)}
      withMod == {m \in mods : MatchJavaRest(s, a + Len(m)).ok}
  IN IF withMod # {} THEN [ok |-> TRUE, sig |-> CHOOSE m \in withMod : TRUE]
     ELSE MatchJavaRest(s, a)

SignaturePattern(language, s) ==
  CASE language = "python" -> MatchPython(s)
    [] language \in {"javascript", "typescript"} -> MatchJavascript(s)
    [] language = "java" -> MatchJava(s)
    [] OTHER -> NoMatch

RECURSIVE SignatureLoop(_, _, _)
SignatureLoop(lines, i, language) ==
  IF i > Len(lines) THEN <<>>
  ELSE LET m == SignaturePattern(language, lines[i].s)
       IN (IF m.ok /\ m.sig # "" THEN <<m.sig>> ELSE <<>>)
          \o SignatureLoop(lines, i + 1, language)

extract_function_signatures(patch, language) ==
  IF language \notin {"python", "javascript", "typescript", "java"} THEN <<>>
  ELSE SignatureLoop(split(patch), 1, language)

\* ------------------------------------------------------------------------
\* models.py: CompressionConfig
\* ------------------------------------------------------------------------
\* fractions in percent, bonus and weights in thousandths of a score point,
\* multiplier and penalties in tenths
CompressionConfig(max_tokens, full, summary, listed) ==
  [max_tokens |-> max_tokens,
   full_diff_token_budget |-> full,
   summary_token_budget |-> summary,
   listed_token_budget |-> listed,
   critical_pattern_bonus |-> 50000,
   language_bonus_multiplier |-> 3,
   additions_weight |-> 100,
   deletions_weight |-> 50,
   test_file_penalty |-> 7,
   doc_file_penalty |-> 5]

DefaultMaxTokens == 50000

DefaultConfig == CompressionConfig(DefaultMaxTokens, 75, 20, 5)

\* ------------------------------------------------------------------------
\* models.py: FileChange, as fetch_pr_diff constructs it
\* ------------------------------------------------------------------------
FileChange(path, status, additions, deletions, patch, is_binary) ==
  [path |-> path, status |-> status, additions |-> additions,
   deletions |-> deletions, changes |-> additions + deletions, patch |-> patch,
   language |-> "", tokens |-> 0, is_binary |-> is_binary]

\* variant: another status word
is_deleted_Deleted(file) == file.status = "deleted"

is_deleted(file) == file.status = "removed"

\* ------------------------------------------------------------------------
\* redis_client.py and the Redis key lang_scores:<repo>:<pr>:<sha>
\* ------------------------------------------------------------------------
None == [tag |-> "None"]

\* variant: priorities are written rounded down to whole tens
json_dumps_Tens(scores) ==
  [tag |-> "str", text |-> [l \in DOMAIN scores |-> (scores[l] \div 100) * 100]]

\* json.dumps(scores): the stored text
json_dumps(scores) == [tag |-> "str", text |-> scores]

\* json.loads(text); json.loads(None) raises TypeError
json_loads(text) ==
  IF text = None THEN [raised |-> TRUE, value |-> None]
  ELSE [raised |-> FALSE, value |-> [tag |-> "dict", obj |-> text.text]]

\* variant: no try/except around the client calls
get_score_Unguarded(client_ok, stored) ==
  IF ~client_ok THEN [raised |-> TRUE, value |-> None]
  ELSE LET scores == json_loads(stored)
       IN IF scores.raised THEN [raised |-> FALSE, value |-> None]
          ELSE [raised |-> FALSE, value |-> scores.value]

\* get_score: client_ok is whether get_client() and client.get() succeed,
\* stored is what Redis holds under the key (None: absent or expired)
get_score(client_ok, stored) ==
  IF ~client_ok THEN [raised |-> FALSE, value |-> None]
  ELSE LET scores == json_loads(stored)
       IN IF scores.raised THEN [raised |-> FALSE, value |-> None]
          ELSE [raised |-> FALSE, value |-> scores.value]

\* store_rate: what Redis holds under the key afterwards, and the outcome
store_rate(client_ok, stored, scores) ==
  IF client_ok
  THEN [raised |-> FALSE, value |-> TRUE, stored |-> json_dumps(scores)]
  ELSE [raised |-> FALSE, value |-> FALSE, stored |-> stored]

\* Python truth value of  scores  in  "if scores:"
Truthy(scores) == scores # None /\ DOMAIN scores.obj # {}

\* ------------------------------------------------------------------------
\* language_analyzer.py
\* ------------------------------------------------------------------------
skip_patterns ==
  {"node_modules/", "vendor/", "dist/", "build/",
   ".min.js", ".min.css",
   "package-lock.json", "yarn.lock", "Gemfile.lock",
   "Pipfile.lock", "poetry.lock",
   "README", "LICENSE", "CHANGELOG"}

_should_skip_file(path) == \E pattern \in skip_patterns : contains(path, pattern)

_get_default_priorities ==
  [lang \in {"python", "javascript", "typescript", "java", "go", "rust", "c",
             "cpp", "ruby", "php", "swift", "kotlin", "html", "css", "scss",
             "json", "yaml", "xml", "markdown", "text"} |->
     CASE lang \in {"html", "css", "scss"} -> 600
       [] lang \in {"json", "yaml", "xml"} -> 400
       [] lang = "markdown" -> 300
       [] lang = "text" -> 200
       [] OTHER -> 700]

\* round(num / den) to an integer, ties to even (Python's round)
RoundHalfEven(num, den) ==
  LET q == num \div den
      r == num % den
  IN IF 2 * r < den THEN q
     ELSE IF 2 * r > den THEN q + 1
     ELSE IF q % 2 = 0 THEN q ELSE q + 1

\* sum(counter.values())
RECURSIVE SumOverSet(_)
SumOverSet(f) ==
  IF DOMAIN f = {} THEN 0
  ELSE LET k == CHOOSE k \in DOMAIN f : TRUE
       IN f[k] + SumOverSet([j \in DOMAIN f \ {k} |-> f[j]])

\* pr_files: the sequence of FileChange values handed to the analyzer
_analyze_file_list(pr_files) ==
  IF Len(pr_files) = 0 THEN _get_default_priorities
  ELSE LET counted == {i \in 1..Len(pr_files) :
                         /\ ~_should_skip_file(pr_files[i].path)
                         /\ detect(pr_files[i].path) # "unknown"}
           langs == {detect(pr_files[i].path) : i \in counted}
           language_counts == [l \in langs |->
                                 Cardinality({i \in counted : detect(pr_files[i].path) = l})]
           language_line_changes ==
             [l \in langs |->
                SumSeq([i \in 1..Len(pr_files) |->
                          IF i \in counted /\ detect(pr_files[i].path) = l
                          THEN pr_files[i].additions + pr_files[i].deletions ELSE 0])]
           total_files == SumOverSet(language_counts)
       IN \* priority = 50 + (lines / total_files * 100) * 0.5, one decimal
          [l \in langs |->
             RoundHalfEven(500 * total_files + 500 * language_line_changes[l], total_files)]

\* ------------------------------------------------------------------------
\* smart_strategy.py: _prepare_files
\* ------------------------------------------------------------------------
Skipped(file) == file.is_binary \/ is_generated(file.path)

\* the in-place enrichment of one surviving FileChange
PrepareFile(file) ==
  LET patch == IF is_critical(file.path)
               THEN expand_context(file.patch)
               ELSE remove_deletion_only_hunks(file.patch)
  IN [file EXCEPT !.language = detect(file.path),
                  !.patch = patch,
                  !.tokens = count(patch)]

\* variant: only the binary check filters
Survivors_BinaryOnly(files) ==
  SelectSeq([i \in 1..Len(files) |-> i], LAMBDA i : ~files[i].is_binary)

\* the references to the files the loop appends to prepared, in list order
Survivors(files) ==
  SelectSeq([i \in 1..Len(files) |-> i], LAMBDA i : ~Skipped(files[i]))

\* files: the caller's list of FileChange objects.  objs is the list after
\* the in-place mutation, prepared the references (indices) returned
_prepare_files(files) ==
  [objs |-> [i \in 1..Len(files) |->
               IF Skipped(files[i]) THEN files[i] ELSE PrepareFile(files[i])],
   prepared |-> Survivors(files)]

\* ------------------------------------------------------------------------
\* smart_strategy.py: _score_files
\* ------------------------------------------------------------------------
Min(a, b) == IF a <= b THEN a ELSE b

\* 1. critical pattern match
CriticalBonus(file, cfg) ==
  IF is_critical(file.path) THEN cfg.critical_pattern_bonus ELSE 0

\* 2. language priority: self._language_scores.get(file.language, 50) * multiplier
LanguageBonus(file, language_scores, cfg) ==
  LET lang_priority == IF file.language \in DOMAIN language_scores
                       THEN language_scores[file.language] ELSE 500
  IN lang_priority * cfg.language_bonus_multiplier * 10

\* variant: deletions weighted like additions
SizeBonus_OneWeight(file, cfg) ==
  LET additions_score == Min(file.additions * cfg.additions_weight, 20000)
      deletions_score == Min(file.deletions * cfg.additions_weight, 10000)
  IN additions_score + deletions_score

\* 3. size-based scoring
SizeBonus(file, cfg) ==
  LET additions_score == Min(file.additions * cfg.additions_weight, 20000)
      deletions_score == Min(file.deletions * cfg.deletions_weight, 10000)
  IN additions_score + deletions_score

\* variant: a path that is both a test and a doc path gets both penalties
TypePenalised_Both(score, file, cfg) ==
  LET tested == IF is_test(file.path) THEN (score * cfg.test_file_penalty) \div 10 ELSE score
  IN IF is_doc(file.path) THEN (tested * cfg.doc_file_penalty) \div 10 ELSE tested

\* 4. file type penalties: the score after  score *= penalty
TypePenalised(score, file, cfg) ==
  IF is_test(file.path) THEN (score * cfg.test_file_penalty) \div 10
  ELSE IF is_doc(file.path) THEN (score * cfg.doc_file_penalty) \div 10
  ELSE score

\* 5. bonus for deleted files (if critical)
DeletedBonus(file) == IF is_deleted(file) /\ is_critical(file.path) THEN 30000 ELSE 0

\* ref: the reference to the FileChange, file: its value
ScoreFile(ref, file, language_scores, cfg) ==
  LET critical_bonus == CriticalBonus(file, cfg)
      language_bonus == LanguageBonus(file, language_scores, cfg)
      size_bonus == SizeBonus(file, cfg)
      test == is_test(file.path)
      doc == is_doc(file.path)
      type_penalty == IF test THEN -(1000 - 100 * cfg.test_file_penalty)
                      ELSE IF doc THEN -(1000 - 100 * cfg.doc_file_penalty)
                      ELSE 0
      score == TypePenalised(critical_bonus + language_bonus + size_bonus, file, cfg)
                 + DeletedBonus(file)
  IN [file |-> ref,
      importance_score |-> score,
      critical_bonus |-> critical_bonus,
      language_bonus |-> language_bonus,
      size_bonus |-> size_bonus,
      type_penalty |-> type_penalty,
      is_critical |-> is_critical(file.path),
      is_test |-> test,
      is_doc |-> doc,
      inclusion_tier |-> "None"]

_score_files(files, heap, language_scores, cfg) ==
  [k \in 1..Len(files) |-> ScoreFile(files[k], heap[files[k]], language_scores, cfg)]

\* ------------------------------------------------------------------------
\* models.py: ScoredFile.__lt__ and list.sort(reverse=True)
\* ------------------------------------------------------------------------
ScoredFile_lt(self, other) == self.importance_score < other.importance_score

Reverse(seq) == [i \in 1..Len(seq) |-> seq[Len(seq) + 1 - i]]

\* x goes in front of the first element it is less than
InsertSorted(sorted, x) ==
  LET after == {j \in 1..Len(sorted) : ScoredFile_lt(x, sorted[j])}
      k == IF after = {} THEN Len(sorted) + 1
           ELSE CHOOSE j \in after : \A j2 \in after : j <= j2
  IN SubSeq(sorted, 1, k - 1) \o <<x>> \o SubSeq(sorted, k, Len(sorted))

\* seq[lo..hi] inserted one by one, left to right, into sorted
RECURSIVE StableSortAscending(_, _, _, _)
StableSortAscending(seq, lo, hi, sorted) ==
  IF lo > hi THEN sorted
  ELSE IF lo = hi THEN InsertSorted(sorted, seq[lo])
  ELSE LET mid == (lo + hi) \div 2
           left == StableSortAscending(seq, lo, mid, sorted)
       IN IF Len(left) >= 0 THEN StableSortAscending(seq, mid + 1, hi, left) ELSE <<>>

\* variant: reverse=True is missing
sort_Ascending(seq) == StableSortAscending(seq, 1, Len(seq), <<>>)

\* variant: sorted ascending, then turned round
sort_reverse_Turned(seq) == Reverse(StableSortAscending(seq, 1, Len(seq), <<>>))

\* list.sort(reverse=True): reverse, sort stably with __lt__, reverse
sort_reverse(seq) ==
  Reverse(StableSortAscending(Reverse(seq), 1, Len(seq), <<>>))

\* ------------------------------------------------------------------------
\* webhooks.py: extract_owl_labels
\* ------------------------------------------------------------------------
extract_owl_labels(pr_labels) ==
  IF pr_labels.null THEN "owl-quick"
  ELSE LET owl_labels == {pr_labels.list[i].name : i \in {j \in 1..Len(pr_labels.list) :
                            pr_labels.list[j].dict
                              /\ startswith(pr_labels.list[j].name, "owl-")}}
       IN IF "owl-ignore" \in owl_labels THEN "owl-ignore"
          ELSE IF "owl-expert" \in owl_labels THEN "owl-expert"
          ELSE IF "owl-deep" \in owl_labels THEN "owl-deep"
          ELSE IF "owl-standard" \in owl_labels THEN "owl-standard"
          ELSE IF "owl-quick" \in owl_labels THEN "owl-quick"
          ELSE "owl-quick"

\* ------------------------------------------------------------------------
\* smart_strategy.py: budgets and estimates
\* ------------------------------------------------------------------------
\* int(max_tokens * fraction): truncation towards zero
int_fraction(max_tokens, pct) ==
  LET num == max_tokens * pct
  IN IF num >= 0 THEN num \div 100 ELSE -((-num) \div 100)

\* variant: the fraction is not applied
full_budget_Whole(cfg) == cfg.max_tokens

full_budget(cfg) == int_fraction(cfg.max_tokens, cfg.full_diff_token_budget)

\* variant: the fraction of the full tier is applied
summary_budget_AsFull(cfg) == int_fraction(cfg.max_tokens, cfg.full_diff_token_budget)

summary_budget(cfg) == int_fraction(cfg.max_tokens, cfg.summary_token_budget)

listed_budget(cfg) == int_fraction(cfg.max_tokens, cfg.listed_token_budget)

listing_tokens == 20

\* variant: no extra tokens for the description of a critical file
_estimate_summary_tokens_NoDescription(scored_file, heap) ==
  LET signatures == extract_function_signatures(heap[scored_file.file].patch,
                                                 heap[scored_file.file].language)
  IN Min(50 + Len(signatures) * 10, 200)

_estimate_summary_tokens(scored_file, heap) ==
  LET signatures == extract_function_signatures(heap[scored_file.file].patch,
                                                 heap[scored_file.file].language)
      base_tokens == 50 + (IF scored_file.is_critical THEN 100 ELSE 0)
                        + Len(signatures) * 10
  IN Min(base_tokens, 200)

\* allocation holds references (indices into scored_files)
_calculate_compressed_tokens(alloc, scored_files, heap) ==
    SumSeq([k \in 1..Len(alloc.full) |-> heap[scored_files[alloc.full[k]].file].tokens])
  + SumSeq([k \in 1..Len(alloc.summary) |->
              _estimate_summary_tokens(scored_files[alloc.summary[k]], heap)])
  + SumSeq([k \in 1..Len(alloc.listed) |-> 20])

\* variant: the later passes go over the whole list again
Unassigned_All(scored_files) == [i \in 1..Len(scored_files) |-> i]

\* [sf for sf in scored_files if sf.inclusion_tier is None], as references
Unassigned(scored_files) ==
  SelectSeq([i \in 1..Len(scored_files) |-> i],
            LAMBDA i : scored_files[i].inclusion_tier = "None")

\* ------------------------------------------------------------------------
\* smart_strategy.py: _generate_stats; models.py: to_dict
\* ------------------------------------------------------------------------
_count_by_language(scored_files, heap) ==
  LET langs == {heap[scored_files[i].file].language : i \in 1..Len(scored_files)}
  IN [l \in langs |->
        Cardinality({i \in 1..Len(scored_files) : heap[scored_files[i].file].language = l})]

\* variant: summary and listed counts swapped
TierBreakdown_Swapped(alloc) ==
  [included_full |-> Len(alloc.full),
   included_summary |-> Len(alloc.listed),
   included_listed |-> Len(alloc.summary)]

\* the tier breakdown of the statistics
TierBreakdown(alloc) ==
  [included_full |-> Len(alloc.full),
   included_summary |-> Len(alloc.summary),
   included_listed |-> Len(alloc.listed)]

\* raises ZeroDivisionError when there is no scored file
_generate_stats(scored_files, alloc, heap) ==
  IF Len(scored_files) = 0 THEN [raised |-> TRUE, value |-> None]
  ELSE
  LET n == Len(scored_files)
      scores == {scored_files[i].importance_score : i \in 1..n}
  IN [raised |-> FALSE,
      value |->
       [total_files |-> n,
        total_additions |-> SumSeq([i \in 1..n |-> heap[scored_files[i].file].additions]),
        total_deletions |-> SumSeq([i \in 1..n |-> heap[scored_files[i].file].deletions]),
        included_full |-> TierBreakdown(alloc).included_full,
        included_summary |-> TierBreakdown(alloc).included_summary,
        included_listed |-> TierBreakdown(alloc).included_listed,
        critical_files |-> Cardinality({i \in 1..n : scored_files[i].is_critical}),
        critical_in_full |->
          Cardinality({k \in 1..Len(alloc.full) : scored_files[alloc.full[k]].is_critical}),
        critical_in_summary |->
          Cardinality({k \in 1..Len(alloc.summary) : scored_files[alloc.summary[k]].is_critical}),
        languages |-> _count_by_language(scored_files, heap),
        avg_importance_score |->
          <<SumSeq([i \in 1..n |-> scored_files[i].importance_score]), n>>,
        max_importance_score |-> CHOOSE m \in scores : \A x \in scores : x <= m,
        min_importance_score |-> CHOOSE m \in scores : \A x \in scores : m <= x]]

\* {**a, **b}: the keys of b override those of a
DictMerge(a, b) ==
  [k \in DOMAIN a \cup DOMAIN b |-> IF k \in DOMAIN b THEN b[k] ELSE a[k]]

\* round(importance_score, 2) in hundredths, ties to even (on the exact
\* decimal value)
round2(score) == RoundHalfEven(score, 10)

_file_to_dict(scored_file, heap, include_patch) ==
  LET f == heap[scored_file.file]
      d == [path |-> f.path, status |-> f.status, additions |-> f.additions,
            deletions |-> f.deletions, language |-> f.language,
            importance_score |-> round2(scored_file.importance_score),
            is_critical |-> scored_file.is_critical]
  IN IF include_patch THEN DictMerge(d, [patch |-> f.patch]) ELSE d

\* res: a CompressionResult, sf: the ScoredFile objects, heap: the FileChanges
to_dict(res, sf, heap) ==
  [strategy |-> res.strategy_used,
   stats |-> DictMerge(
     [total_files |-> Len(res.original_files),
      included_full |-> Len(res.included_full),
      included_summary |-> Len(res.included_summary),
      included_listed |-> Len(res.included_listed),
      original_tokens |-> res.original_tokens,
      compressed_tokens |-> res.compressed_tokens,
      compression_ratio |-> res.compression_ratio],
     res.stats),
   files |->
     [full |-> [k \in 1..Len(res.included_full) |->
                  _file_to_dict(sf[res.included_full[k]], heap, TRUE)],
      summary |-> [k \in 1..Len(res.included_summary) |->
                  _file_to_dict(sf[res.included_summary[k]], heap, FALSE)],
      listed |-> [k \in 1..Len(res.included_listed) |->
                  heap[sf[res.included_listed[k]].file].path]]]

\* ------------------------------------------------------------------------
\* intake/webhooks.py, intake/models.py, ai_service/redis_client.py
\* ------------------------------------------------------------------------
\* store_diff: what Redis holds under diff:<diff_id> afterwards, and the
\* outcome; client_ok is whether get_client() and client.setex() succeed
store_diff(client_ok, stored, diff_id, diff_content) ==
  IF client_ok
  THEN [value |-> TRUE, stored |-> [key |-> diff_id, content |-> diff_content]]
  ELSE [value |-> FALSE, stored |-> stored]

\* get_diff: None when the client fails or the key is absent
get_diff(client_ok, stored, diff_id) ==
  IF client_ok /\ stored # None /\ stored.key = diff_id THEN stored.content ELSE None

\* the fields the model PullRequestData declares
PullRequestDataFields ==
  {"action", "pr_number", "pr_title", "pr_body", "pr_url", "pr_diff_url", "pr_author",
   "repo_name", "repo_url", "created_at", "pr_diff_content"}

\* PullRequestData(**kwargs).model_dump(): a pydantic model ignores the
\* keywords it does not declare; pr_diff_content defaults to None
PullRequestData(kwargs) ==
  [f \in PullRequestDataFields |-> IF f \in DOMAIN kwargs THEN kwargs[f] ELSE "None"]

\* event_dict.get(key)
dict_get(event_dict, key) == IF key \in DOMAIN event_dict THEN event_dict[key] ELSE "None"

\* ------------------------------------------------------------------------
\* ai_service/worker.py: parse_compressed_diff
\* ------------------------------------------------------------------------
\* seq[:n]
SliceTo(seq, n) ==
  LET stop == IF n >= 0 THEN Min(n, Len(seq))
              ELSE IF Len(seq) + n > 0 THEN Len(seq) + n ELSE 0
  IN SubSeq(seq, 1, stop)

\* str(n) for a natural number
RECURSIVE str(_)
str(n) ==
  LET d == <<"0", "1", "2", "3", "4", "5", "6", "7", "8", "9">>
  IN IF n < 10 THEN d[n + 1] ELSE str(n \div 10) \o d[(n % 10) + 1]

\* patch.splitlines(): the lines, without the empty piece after a final newline
splitlines(patch) ==
  IF LineLen(patch[Len(patch)]) = 0 THEN SubSeq(patch, 1, Len(patch) - 1) ELSE patch

\* line[1:]
DropFirst(line) ==
  IF Len(line.s) > 0 THEN [s |-> SubSeq(line.s, 2, Len(line.s)), pad |-> line.pad]
  ELSE [s |-> "", pad |-> IF line.pad > 0 THEN line.pad - 1 ELSE 0]

\* the lines of the patch with the given sign, file-header lines excluded,
\* without the sign
SignedLines(patch, sign, header) ==
  LET lines == splitlines(patch)
      picked == SelectSeq(lines, LAMBDA line : line_startswith(line, sign)
                                                 /\ ~line_startswith(line, header))
  IN [k \in 1..Len(picked) |-> DropFirst(picked[k])]

\* the file entry appended for a full-tier or summary-tier file
ParsedFile(file_data) ==
  [filename |-> file_data.path, additions |-> file_data.additions,
   deletions |-> file_data.deletions, status |-> file_data.status,
   language |-> file_data.language, is_critical |-> file_data.is_critical,
   importance_score |-> file_data.importance_score]

\* the snippets of the full-tier files taken: none for an empty patch; the
\* removed lines are looked for only among the lines that are not added lines
FullSnippets(taken, max_lines_per_file) ==
  LET with_patch == SelectSeq(taken, LAMBDA file_data : TextLen(file_data.patch) > 0)
  IN [k \in 1..Len(with_patch) |->
        [filename |-> with_patch[k].path,
         added_text |-> join(SliceTo(SignedLines(with_patch[k].patch, "+", "+++"),
                                     max_lines_per_file)),
         removed_text |-> join(SliceTo(SignedLines(with_patch[k].patch, "-", "---"),
                                       max_lines_per_file)),
         is_critical |-> with_patch[k].is_critical,
         language |-> with_patch[k].language]]

SummarySnippet(file_data) ==
  [filename |-> file_data.path,
   added_text |-> <<Ln("[Summary only: +" \o str(file_data.additions) \o " lines added]")>>,
   removed_text |-> <<Ln("[Summary only: -" \o str(file_data.deletions)
                           \o " lines removed]")>>,
   is_critical |-> file_data.is_critical,
   language |-> file_data.language,
   note |-> "Full diff excluded due to token limits"]

\* variant: the summary tier is cut at max_files
remaining_slots_All(max_files, files) == max_files

remaining_slots(max_files, files) == max_files - Len(files)

\* compression: the "compression" entry of the message, a to_dict() value,
\* which always has its "files" entry with the three tiers
parse_compressed_diff(compression, max_files, max_lines_per_file) ==
  LET files_data == compression.files
      taken == SliceTo(files_data.full, max_files)
      files == [k \in 1..Len(taken) |-> ParsedFile(taken[k])]
      snippets == FullSnippets(taken, max_lines_per_file)
      slots == remaining_slots(max_files, files)
      summary == IF slots > 0 THEN SliceTo(files_data.summary, slots) ELSE <<>>
  IN [files |-> files \o [k \in 1..Len(summary) |-> ParsedFile(summary[k])],
      snippets |-> snippets \o [k \in 1..Len(summary) |-> SummarySnippet(summary[k])]]

\* ------------------------------------------------------------------------
\* Inputs
\* ------------------------------------------------------------------------
MaxFiles == 3

MaxFilesTwice == 2

BulkSummary == 50

BulkListed == 126

SessionPy ==
  FileChange("auth/session.py", "modified", 10, 2,
             <<Ln("+token = generate()"), Ln("-old_token = None"), Ln("")>>, FALSE)

UtilPy ==
  FileChange("src/util.py", "modified", 30, 5,
             <<Ln("--- a/src/util.py"), Ln("+++ b/src/util.py"),
               Ln("@@ -1,2 +1,0 @@"), Ln("-x = 1"),
               Ln("@@ -9,1 +9,2 @@"), Pad("+def helper(a):", 520), Ln("-    pass")>>, FALSE)

TestAuthPy ==
  FileChange("tests/test_auth.py", "removed", 0, 40,
             <<Ln("@@ -1,40 +0,0 @@"), Pad("-def test_login():", 300)>>, FALSE)

DocsAuthMd ==
  FileChange("docs/auth.md", "removed", 0, 1,
             <<Ln("@@ -1,1 +0,0 @@"), Pad("-# Auth", 100)>>, FALSE)

LoginPy ==
  FileChange("auth/login.py", "removed", 0, 25,
             <<Ln("@@ -1,25 +0,0 @@"), Pad("-def login(user):", 200)>>, FALSE)

ReadmeMd ==
  FileChange("README.md", "modified", 3, 1,
             <<Ln("@@ -3,1 +3,0 @@"), Ln("-old line")>>, FALSE)

AppJs ==
  FileChange("web/app.js", "added", 250, 0,
             <<Ln("@@ -0,0 +1,2 @@"), Ln("+function render(x) {"),
               Ln("@@ -10,0 +11,248 @@"), Pad("+const go = (a) => a", 1200)>>, FALSE)

BundleMinJs ==
  FileChange("dist/bundle.min.js", "modified", 900, 900,
             <<Ln("@@ -1,1 +1,1 @@"), Pad("+!function(){", 4000)>>, FALSE)

LogoPng == FileChange("assets/logo.png", "modified", 0, 0, <<Ln("")>>, TRUE)

Universe ==
  <<SessionPy, UtilPy, TestAuthPy, DocsAuthMd, LoginPy, ReadmeMd, AppJs, BundleMinJs,
    LogoPng>>

\* the members of S (a set of indices of Universe) in ascending order
RECURSIVE Ascending(_, _)
Ascending(S, i) ==
  IF i > Len(Universe) THEN <<>>
  ELSE (IF i \in S THEN <<Universe[i]>> ELSE <<>>) \o Ascending(S, i + 1)

\* the lists of at most n files of Universe, in Universe order or reversed
FileLists(n) ==
  LET up == {Ascending(S, 1) :
               S \in {T \in SUBSET (1..Len(Universe)) : Cardinality(T) <= n}}
  IN up \cup {Reverse(l) : l \in up}

Digit == <<"0", "1", "2", "3", "4", "5", "6", "7", "8", "9">>

Num3(i) ==
  Digit[((i \div 100) % 10) + 1] \o Digit[((i \div 10) % 10) + 1] \o Digit[(i % 10) + 1]

\* a large pull request for the default budget: one file that fills the FULL
\* budget, files whose summaries cost 200 tokens each, and small files
BigPy == FileChange("auth/big.py", "modified", 100, 0, <<Pad("+", 149999)>>, FALSE)

MidPy(i) ==
  FileChange("api/m" \o Num3(i) \o ".py", "modified", 0, 0,
             [k \in 1..5 |-> Ln("+def f(x):")], FALSE)

SmallPy(i) ==
  FileChange("src/s" \o Num3(i) \o ".py", "modified", 0, 0, <<Ln("+y = 1")>>, FALSE)

BulkList(m, n) ==
  <<BigPy>> \o [i \in 1..m |-> MidPy(i)] \o [i \in 1..n |-> SmallPy(i)]

\* files for scoring: paths in both cases and of every class, both statuses,
\* sizes below and above the two caps
ScorePaths ==
  {"AUTH/Login.py", "TEST_foo.py", "Docs/guide.py", "docs/guide.py",
   "DIST/app.MIN.JS", "dist/app.min.js", "tests/test_auth.py", "docs/auth.md",
   "tests/README.md", "tests/auth/README.md", "src/main.go", "src/util.py"}

ScoreSizes == {0, 10, 250}

ScoreFiles ==
  {FileChange(path, status, additions, deletions, <<Ln("@@ -1,1 +1,1 @@"), Ln("+x = 2")>>, FALSE) :
     path \in ScorePaths, status \in {"modified", "removed"},
     additions \in ScoreSizes, deletions \in ScoreSizes}

OtherScores == [python |-> 1000, go |-> 0, markdown |-> 583, unknown |-> 725]

\* str(uuid.uuid4()) of the one delivery
DiffId == "3f2b8c1e"

\* what fetch_pr_diff returns: the files of the pull request, or [] when
\* the request to GitHub failed
FetchedLists ==
  {<<>>, <<SessionPy>>, <<UtilPy, ReadmeMd>>, <<BundleMinJs>>, <<TestAuthPy, LoginPy, AppJs>>}

\* the limits the review worker is configured with
MaxParseFiles == 3

ParseLines == {1, 120}

\* the labels of a pull request: every entry is a dict with a name or
\* something else; the list may be null
MaxLabels == 2

Label(name) == [dict |-> TRUE, name |-> name]

NotADict == [dict |-> FALSE, name |-> ""]

LabelValues ==
  {Label("owl-ignore"), Label("owl-expert"), Label("owl-deep"), Label("owl-standard"),
   Label("owl-quick"), Label("owl-night"), Label("bug"), Label(""), NotADict}

LabelLists ==
  {[null |-> FALSE, list |-> l] : l \in UNION {[1..n -> LabelValues] : n \in 0..MaxLabels}}
    \cup {[null |-> TRUE, list |-> <<>>]}

\* the label lists of the deliveries to the service
ServiceLabels ==
  {[null |-> FALSE, list |-> <<>>], [null |-> TRUE, list |-> <<>>],
   [null |-> FALSE, list |-> <<Label("owl-ignore")>>],
   [null |-> FALSE, list |-> <<Label("bug"), Label("owl-deep")>>]}

\* the dataclass takes any numbers
UncheckedConfigs ==
  {DefaultConfig, CompressionConfig(-100, 75, 20, 5), CompressionConfig(300, -75, 20, 5),
   CompressionConfig(300, 75, 50, 25)}

\* patches of up to MaxPatchLines lines, and the two-hunk patch with a preamble
MaxPatchLines == 4

PatchLines ==
  {Ln("+++ b/src/lib.py"), Ln("@@ -1,2 +1,2 @@"), Ln("+x = 2"), Ln("-x = 1"),
   Ln(" y = 0"), Ln("")}

TwoHunkPatch ==
  <<Ln("--- a/src/lib.py"), Ln("+++ b/src/lib.py"),
    Ln("@@ -1,2 +1,0 @@"), Ln("-x = 1"), Ln("-y = 1"),
    Ln("@@ -9,2 +7,2 @@"), Ln("+z = 2"), Ln("-z = 1"), Ln("")>>

Patches ==
  UNION {[1..n -> PatchLines] : n \in 1..MaxPatchLines} \cup {TwoHunkPatch}

\* patches of up to MaxRerunLines lines, and the two-hunk patch, for a file
\* that is prepared twice
MaxRerunLines == 3

RerunPatches ==
  UNION {[1..n -> PatchLines] : n \in 1..MaxRerunLines} \cup {TwoHunkPatch}

LibPy(patch) == FileChange("src/lib.py", "modified", 1, 1, patch, FALSE)

Configs ==
  {DefaultConfig,
   CompressionConfig(300, 75, 20, 5),
   CompressionConfig(400, 50, 50, 10)}

\* priorities an earlier analysis left under the same key
StaleScores == [l \in {"python", "javascript"} |-> IF l = "python" THEN 550 ELSE 950]

Calls == {1, 2}

\* ------------------------------------------------------------------------
\* State
\* ------------------------------------------------------------------------
VARIABLES
  config,            \* the CompressionConfig of the strategy
  input,             \* the file list the caller fetched: [null, files]
  cache,             \* what Redis holds under the lang_scores key
  pc,                \* per call: where compress() stands
  handed,            \* per call: "fresh" objects or the "same" objects again
  objs,              \* per call: the FileChange objects of the list handed in
  prepared,          \* per call: files (references into objs) after _prepare_files
  lookup,            \* per call: outcome of get_score: "hit", "miss", "fail"
  stored,            \* per call: outcome of store_rate: "ok", "fail"
  language_scores,   \* per call: self._language_scores
  scored,            \* per call: scored_files (the ScoredFile objects)
  allocation,        \* per call: allocation (references into scored)
  tokens_used,       \* per call: tokens_used
  remaining_files,   \* per call: remaining_files of the running pass
  pos,               \* per call: position of the running loop
  error,             \* per call: the exception compress() raised, "" if none
  result,            \* per call: the CompressionResult returned
  payload,           \* per call: result.to_dict()
  redis_answers,     \* whether the Redis server answers requests at all
  labels,            \* the labels of the pull request in the webhook payload
  owl_level,         \* the review level the handler extracted, "" before
  parsed,            \* what the review worker parsed from the message: files and snippets
  hook,              \* handle_github_webhook: where the handler is
  response,          \* handle_github_webhook: what the handler answered
  diffs,             \* Redis: what is stored under diff:<diff_id>
  ai_exchange,       \* RabbitMQ: the messages published to the ai_service exchange
  handled,           \* ai_service handle_message: how the message ended
  msg                \* outbound handle_github: the incoming message

vars ==
  <<config, input, cache, pc, handed, objs, prepared, lookup, stored,
    language_scores, scored, allocation, tokens_used, remaining_files, pos, error,
    result, payload, redis_answers, labels, owl_level, parsed, hook, response,
    diffs, ai_exchange, handled, msg>>

NoAllocation == [full |-> <<>>, summary |-> <<>>, listed |-> <<>>]

NoTokens == [full |-> 0, summary |-> 0, listed |-> 0]

Finished == {"returned", "raised", "serialized"}

\* the strategy is constructed, nothing has been called yet
NothingCalled ==
  /\ pc = [c \in Calls |-> "idle"]
  /\ handed = [c \in Calls |-> "fresh"]
  /\ objs = [c \in Calls |-> <<>>]
  /\ prepared = [c \in Calls |-> <<>>]
  /\ lookup = [c \in Calls |-> "none"]
  /\ stored = [c \in Calls |-> "none"]
  /\ language_scores = [c \in Calls |-> <<>>]
  /\ scored = [c \in Calls |-> <<>>]
  /\ allocation = [c \in Calls |-> NoAllocation]
  /\ tokens_used = [c \in Calls |-> NoTokens]
  /\ remaining_files = [c \in Calls |-> <<>>]
  /\ pos = [c \in Calls |-> 0]
  /\ error = [c \in Calls |-> ""]
  /\ result = [c \in Calls |-> None]
  /\ payload = [c \in Calls |-> None]
  /\ msg = [at |-> "queued", status |-> 0, acked |-> FALSE, nacked |-> FALSE]
  /\ handled = ""
  /\ ai_exchange = <<>>
  /\ diffs = None
  /\ response = ""
  /\ hook = "received"
  /\ parsed = None
  /\ owl_level = ""
  /\ redis_answers = TRUE

\* compress() is called directly, not from a webhook delivery
Idle ==
  /\ NothingCalled
  /\ labels = [null |-> FALSE, list |-> <<>>]

\* the key is absent or holds priorities cached earlier
Constructed ==
  /\ cache \in {None, json_dumps(StaleScores)}
  /\ Idle

Inputs(n) ==
  {[null |-> FALSE, files |-> l] : l \in FileLists(n)} \cup {[null |-> TRUE, files |-> <<>>]}

\* one compress() call on a small pull request, under several budgets
Init ==
  /\ config \in Configs
  /\ input \in Inputs(MaxFiles)
  /\ Constructed

\* two compress() calls, one after the other, for the same pull request
InitTwice ==
  /\ config = CompressionConfig(400, 50, 50, 10)
  /\ input \in Inputs(MaxFilesTwice)
  /\ Constructed

\* one compress() call on a large pull request under the default config
InitBulk ==
  /\ config = DefaultConfig
  /\ input \in {[null |-> FALSE, files |-> BulkList(BulkSummary, n)] :
                  n \in {BulkListed - 1, BulkListed}}
  /\ Constructed

\* one compress() call under configs nothing at construction forbids
InitConfig ==
  /\ config \in UncheckedConfigs
  /\ input \in Inputs(MaxFilesTwice)
  /\ Constructed

\* the priorities a call for the fetched list computes on a cache miss
FreshScores(files) ==
  LET p == _prepare_files(files)
  IN _analyze_file_list([k \in 1..Len(p.prepared) |-> p.objs[p.prepared[k]]])

\* two compress() calls for the same key at the same time; the key is
\* absent or holds what an earlier call for it stored
InitConcurrent ==
  /\ config = CompressionConfig(400, 50, 50, 10)
  /\ input \in Inputs(MaxFilesTwice)
  /\ cache \in {None} \cup (IF input.null THEN {} ELSE {json_dumps(FreshScores(input.files))})
  /\ Idle

\* one compress() call on one file, over paths, statuses, sizes and cached
\* priority maps
InitScore ==
  /\ config = DefaultConfig
  /\ input \in {[null |-> FALSE, files |-> <<f>>] : f \in ScoreFiles}
  /\ cache \in {None, json_dumps(StaleScores), json_dumps(OtherScores)}
  /\ Idle

\* a pull request of one non-critical file, over its patches, before the
\* first of two calls; nothing is cached yet
InitRerun ==
  /\ config = DefaultConfig
  /\ input \in {[null |-> FALSE, files |-> <<LibPy(patch)>>] : patch \in RerunPatches}
  /\ cache = None
  /\ Idle

\* one webhook delivery for a pull request of one file, over its labels
InitOwl ==
  /\ config = DefaultConfig
  /\ input = [null |-> FALSE, files |-> <<SessionPy>>]
  /\ cache = None
  /\ labels \in LabelLists
  /\ NothingCalled

\* one "opened" pull_request delivery to the intake service, and one review
\* message waiting for the outbound worker
InitService ==
  /\ config = DefaultConfig
  /\ input \in {[null |-> FALSE, files |-> l] : l \in FetchedLists}
  /\ cache = None
  /\ labels \in ServiceLabels
  /\ NothingCalled

\* one compress() call on a pull request of at most one file
InitSingle ==
  /\ config = DefaultConfig
  /\ input \in {[null |-> FALSE, files |-> <<Universe[i]>>] : i \in 1..Len(Universe)}
                \cup {[null |-> FALSE, files |-> <<>>], [null |-> TRUE, files |-> <<>>]}
  /\ Constructed

\* one compress() call on one non-critical file, over many patches
InitPatch ==
  /\ config = DefaultConfig
  /\ input \in {[null |-> FALSE, files |-> <<LibPy(p)>>] : p \in Patches}
  /\ Constructed

\* ------------------------------------------------------------------------
\* compress(), step by step
\* ------------------------------------------------------------------------
\* compress() is called: _prepare_files runs, then get_score is awaited.
\* The second call is handed either fresh FileChange objects built from the
\* same fetched data or the objects the first call already went through.
Begin(c) ==
  /\ pc[c] = "idle"
  /\ \E h \in (IF c = 1 \/ input.null \/ pc[1] \notin Finished
              THEN {"fresh"} ELSE {"fresh", "same"}) :
       /\ handed' = [handed EXCEPT ![c] = h]
       /\ IF input.null
          THEN \* for file in None: TypeError
               /\ pc' = [pc EXCEPT ![c] = "raised"]
               /\ error' = [error EXCEPT ![c] = "TypeError"]
               /\ UNCHANGED <<objs, prepared>>
          ELSE LET p == _prepare_files(IF h = "same" THEN objs[1] ELSE input.files)
               IN /\ objs' = [objs EXCEPT ![c] = p.objs]
                  /\ prepared' = [prepared EXCEPT ![c] = p.prepared]
                  /\ pc' = [pc EXCEPT ![c] = "get_score"]
                  /\ UNCHANGED error
  /\ UNCHANGED <<config, input, msg, handled, ai_exchange, diffs, response, hook,
                 parsed, owl_level, labels, redis_answers, cache, lookup, stored,
                 language_scores, scored, allocation, tokens_used, remaining_files, pos,
                 result, payload>>

\* a call made after the previous one has ended
Prepare(c) ==
  /\ c = 1 \/ pc[1] \in Finished
  /\ Begin(c)

\* the files handed to analyze_repository
PreparedFiles(c) == [k \in 1..Len(prepared[c]) |-> objs[c][prepared[c][k]]]

\* analyze_repository up to its return or to the await of store_rate
GetScore(c) ==
  /\ pc[c] = "get_score"
  /\ redis_answers   \* await client.get(): no timeout is set anywhere
  /\ \E client_ok \in BOOLEAN :
       LET r == get_score(client_ok, cache) IN
       IF r.raised
       THEN /\ pc' = [pc EXCEPT ![c] = "raised"]
            /\ error' = [error EXCEPT ![c] = "RedisError"]
            /\ lookup' = [lookup EXCEPT ![c] = "fail"]
            /\ UNCHANGED language_scores
       ELSE /\ lookup' = [lookup EXCEPT ![c] =
                 IF ~client_ok THEN "fail" ELSE IF Truthy(r.value) THEN "hit" ELSE "miss"]
            /\ IF Truthy(r.value)
               THEN /\ language_scores' = [language_scores EXCEPT ![c] = r.value.obj]
                    /\ pc' = [pc EXCEPT ![c] = "score"]
               ELSE /\ language_scores' =
                         [language_scores EXCEPT ![c] = _analyze_file_list(PreparedFiles(c))]
                    /\ pc' = [pc EXCEPT ![c] = "store_rate"]
            /\ UNCHANGED error
  /\ UNCHANGED <<config, input, msg, handled, ai_exchange, diffs, response, hook,
                 parsed, owl_level, labels, redis_answers, cache, handed, objs,
                 prepared, stored, scored, allocation, tokens_used, remaining_files,
                 pos, result, payload>>

\* store_rate answers; analyze_repository returns the computed scores
StoreRate(c) ==
  /\ pc[c] = "store_rate"
  /\ redis_answers   \* await client.setex(): no timeout is set anywhere
  /\ \E client_ok \in BOOLEAN :
       LET r == store_rate(client_ok, cache, language_scores[c]) IN
       /\ cache' = r.stored
       /\ IF r.raised
          THEN /\ pc' = [pc EXCEPT ![c] = "raised"]
               /\ error' = [error EXCEPT ![c] = "RedisError"]
               /\ stored' = [stored EXCEPT ![c] = "fail"]
          ELSE /\ pc' = [pc EXCEPT ![c] = "score"]
               /\ stored' = [stored EXCEPT ![c] = IF r.value THEN "ok" ELSE "fail"]
               /\ UNCHANGED error
  /\ UNCHANGED <<config, input, msg, handled, ai_exchange, diffs, response, hook,
                 parsed, owl_level, labels, redis_answers, handed, objs, prepared,
                 lookup, language_scores, scored, allocation, tokens_used,
                 remaining_files, pos, result, payload>>

\* _score_files, scored_files.sort(reverse=True), start of _allocate_to_tiers
ScoreAndSort(c) ==
  /\ pc[c] = "score"
  /\ scored' = [scored EXCEPT ![c] =
       sort_reverse(_score_files(prepared[c], objs[c], language_scores[c], config))]
  /\ allocation' = [allocation EXCEPT ![c] = NoAllocation]
  /\ tokens_used' = [tokens_used EXCEPT ![c] = NoTokens]
  /\ pos' = [pos EXCEPT ![c] = 1]
  /\ pc' = [pc EXCEPT ![c] = "alloc_full"]
  /\ UNCHANGED <<config, input, msg, handled, ai_exchange, diffs, response, hook,
                 parsed, owl_level, labels, redis_answers, cache, handed, objs,
                 prepared, lookup, stored, language_scores, remaining_files, error,
                 result, payload>>

\* variant: a file that does not fit is passed over and the pass goes on
AllocFull_BestFit(c) ==
  /\ pc[c] = "alloc_full"
  /\ LET i == pos[c] IN
     IF /\ i <= Len(scored[c])
        /\ tokens_used[c].full + objs[c][scored[c][i].file].tokens <= full_budget(config)
     THEN /\ scored' = [scored EXCEPT ![c][i].inclusion_tier = "full"]
          /\ allocation' = [allocation EXCEPT ![c].full = Append(@, i)]
          /\ tokens_used' = [tokens_used EXCEPT ![c].full =
                               @ + objs[c][scored[c][i].file].tokens]
          /\ pos' = [pos EXCEPT ![c] = i + 1]
          /\ UNCHANGED <<pc, remaining_files>>
     ELSE IF i <= Len(scored[c])
     THEN /\ pos' = [pos EXCEPT ![c] = i + 1]
          /\ UNCHANGED <<pc, remaining_files, scored, allocation, tokens_used>>
     ELSE /\ remaining_files' = [remaining_files EXCEPT ![c] = Unassigned(scored[c])]
          /\ pos' = [pos EXCEPT ![c] = 1]
          /\ pc' = [pc EXCEPT ![c] = "alloc_summary"]
          /\ UNCHANGED <<scored, allocation, tokens_used>>
  /\ UNCHANGED <<config, input, msg, handled, ai_exchange, diffs, response, hook,
                 parsed, owl_level, labels, redis_answers, cache, handed, objs,
                 prepared, lookup, stored, language_scores, error, result, payload>>

\* one iteration of the first pass, or its end
AllocFull(c) ==
  /\ pc[c] = "alloc_full"
  /\ LET i == pos[c] IN
     IF /\ i <= Len(scored[c])
        /\ tokens_used[c].full + objs[c][scored[c][i].file].tokens <= full_budget(config)
     THEN /\ scored' = [scored EXCEPT ![c][i].inclusion_tier = "full"]
          /\ allocation' = [allocation EXCEPT ![c].full = Append(@, i)]
          /\ tokens_used' = [tokens_used EXCEPT ![c].full =
                               @ + objs[c][scored[c][i].file].tokens]
          /\ pos' = [pos EXCEPT ![c] = i + 1]
          /\ UNCHANGED <<pc, remaining_files>>
     ELSE /\ remaining_files' = [remaining_files EXCEPT ![c] = Unassigned(scored[c])]
          /\ pos' = [pos EXCEPT ![c] = 1]
          /\ pc' = [pc EXCEPT ![c] = "alloc_summary"]
          /\ UNCHANGED <<scored, allocation, tokens_used>>
  /\ UNCHANGED <<config, input, msg, handled, ai_exchange, diffs, response, hook,
                 parsed, owl_level, labels, redis_answers, cache, handed, objs,
                 prepared, lookup, stored, language_scores, error, result, payload>>

\* one iteration of the second pass, or its end
AllocSummary(c) ==
  /\ pc[c] = "alloc_summary"
  /\ LET k == pos[c]
         i == remaining_files[c][k]
         summary_tokens == _estimate_summary_tokens(scored[c][i], objs[c])
     IN
     IF /\ k <= Len(remaining_files[c])
        /\ tokens_used[c].summary + summary_tokens <= summary_budget(config)
     THEN /\ scored' = [scored EXCEPT ![c][i].inclusion_tier = "summary"]
          /\ allocation' = [allocation EXCEPT ![c].summary = Append(@, i)]
          /\ tokens_used' = [tokens_used EXCEPT ![c].summary = @ + summary_tokens]
          /\ pos' = [pos EXCEPT ![c] = k + 1]
          /\ UNCHANGED <<pc, remaining_files>>
     ELSE /\ remaining_files' = [remaining_files EXCEPT ![c] = Unassigned(scored[c])]
          /\ pos' = [pos EXCEPT ![c] = 1]
          /\ pc' = [pc EXCEPT ![c] = "alloc_listed"]
          /\ UNCHANGED <<scored, allocation, tokens_used>>
  /\ UNCHANGED <<config, input, msg, handled, ai_exchange, diffs, response, hook,
                 parsed, owl_level, labels, redis_answers, cache, handed, objs,
                 prepared, lookup, stored, language_scores, error, result, payload>>

\* one iteration of the third pass, or its end
AllocListed(c) ==
  /\ pc[c] = "alloc_listed"
  /\ LET k == pos[c]
         i == remaining_files[c][k]
     IN
     IF k <= Len(remaining_files[c])
     THEN /\ scored' = [scored EXCEPT ![c][i].inclusion_tier = "listed"]
          /\ allocation' = [allocation EXCEPT ![c].listed = Append(@, i)]
          /\ tokens_used' = [tokens_used EXCEPT ![c].listed =
               IF @ + listing_tokens <= listed_budget(config)
               THEN @ + listing_tokens
               ELSE @]  \* exceeds even listing budget, still add
          /\ pos' = [pos EXCEPT ![c] = k + 1]
          /\ UNCHANGED pc
     ELSE /\ pc' = [pc EXCEPT ![c] = "stats"]
          /\ UNCHANGED <<scored, allocation, tokens_used, pos>>
  /\ UNCHANGED <<config, input, msg, handled, ai_exchange, diffs, response, hook,
                 parsed, owl_level, labels, redis_answers, cache, handed, objs,
                 prepared, lookup, stored, language_scores, remaining_files, error,
                 result, payload>>

\* steps 5 of compress(): statistics and the CompressionResult
Return(c) ==
  /\ pc[c] = "stats"
  /\ LET original_tokens ==
           SumSeq([i \in 1..Len(scored[c]) |-> objs[c][scored[c][i].file].tokens])
         compressed_tokens ==
           _calculate_compressed_tokens(allocation[c], scored[c], objs[c])
         stats == _generate_stats(scored[c], allocation[c], objs[c])
     IN IF stats.raised
        THEN /\ pc' = [pc EXCEPT ![c] = "raised"]
             /\ error' = [error EXCEPT ![c] = "ZeroDivisionError"]
             /\ UNCHANGED result
        ELSE /\ result' = [result EXCEPT ![c] =
                  [original_files |-> prepared[c],
                   original_tokens |-> original_tokens,
                   included_full |-> allocation[c].full,
                   included_summary |-> allocation[c].summary,
                   included_listed |-> allocation[c].listed,
                   compressed_tokens |-> compressed_tokens,
                   compression_ratio |->
                     IF original_tokens > 0 THEN <<compressed_tokens, original_tokens>>
                     ELSE <<1, 1>>,
                   strategy_used |-> "smart",
                   stats |-> stats.value]]
             /\ pc' = [pc EXCEPT ![c] = "returned"]
             /\ UNCHANGED error
  /\ UNCHANGED <<config, input, msg, handled, ai_exchange, diffs, response, hook,
                 parsed, owl_level, labels, redis_answers, cache, handed, objs,
                 prepared, lookup, stored, language_scores, scored, allocation,
                 tokens_used, remaining_files, pos, payload>>

\* webhooks.py: the handler serialises the result for storage
ToDict(c) ==
  /\ pc[c] = "returned"
  /\ payload' = [payload EXCEPT ![c] = to_dict(result[c], scored[c], objs[c])]
  /\ pc' = [pc EXCEPT ![c] = "serialized"]
  /\ UNCHANGED <<config, input, msg, handled, ai_exchange, diffs, response, hook,
                 parsed, owl_level, labels, redis_answers, cache, handed, objs,
                 prepared, lookup, stored, language_scores, scored, allocation,
                 tokens_used, remaining_files, pos, error, result>>

\* the TTL of the lang_scores key runs out
Expire ==
  /\ cache # None
  /\ cache' = None
  /\ UNCHANGED <<config, input, msg, handled, ai_exchange, diffs, response, hook,
                 parsed, owl_level, labels, redis_answers, pc, handed, objs, prepared,
                 lookup, stored, language_scores, scored, allocation, tokens_used,
                 remaining_files, pos, error, result, payload>>

\* the Redis server stops answering: requests get neither a reply nor an error
Stall ==
  /\ redis_answers
  /\ redis_answers' = FALSE
  /\ UNCHANGED <<config, input, msg, handled, ai_exchange, diffs, response, hook,
                 parsed, owl_level, labels, cache, pc, handed, objs, prepared, lookup,
                 stored, language_scores, scored, allocation, tokens_used,
                 remaining_files, pos, error, result, payload>>

\* the review worker parses the message built from to_dict()
Parse ==
  /\ pc[1] = "serialized"
  /\ parsed = None
  /\ \E max_files \in 0..MaxParseFiles, max_lines_per_file \in ParseLines :
       parsed' = DictMerge([max_files |-> max_files,
                            max_lines_per_file |-> max_lines_per_file],
                           parse_compressed_diff(payload[1], max_files, max_lines_per_file))
  /\ UNCHANGED <<config, input, msg, handled, ai_exchange, diffs, response, hook,
                 owl_level, labels, cache, pc, handed, objs, prepared, lookup, stored,
                 language_scores, scored, allocation, tokens_used, remaining_files, pos,
                 error, result, payload, redis_answers>>

\* handle_github_webhook up to the review level
ExtractOwl ==
  /\ owl_level = ""
  /\ owl_level' = extract_owl_labels(labels)
  /\ UNCHANGED <<config, input, msg, handled, ai_exchange, diffs, response, hook,
                 parsed, labels, cache, pc, handed, objs, prepared, lookup, stored,
                 language_scores, scored, allocation, tokens_used, remaining_files, pos,
                 error, result, payload, redis_answers>>

\* a call made whatever the other call is doing: every webhook delivery
\* fetches its own file list and builds its own strategy
CompressConcurrently(c) ==
  \/ Begin(c)
  \/ GetScore(c)
  \/ StoreRate(c)
  \/ ScoreAndSort(c)
  \/ AllocFull(c)
  \/ AllocSummary(c)
  \/ AllocListed(c)
  \/ Return(c)
  \/ ToDict(c)

Compress(c) ==
  \/ Prepare(c)
  \/ GetScore(c)
  \/ StoreRate(c)
  \/ ScoreAndSort(c)
  \/ AllocFull(c)
  \/ AllocSummary(c)
  \/ AllocListed(c)
  \/ Return(c)
  \/ ToDict(c)

Next == Compress(1) \/ Expire

NextTwice == (\E c \in Calls : Compress(c)) \/ Expire

\* two compress() calls, one after the other, for one file over its patches
SpecRerun == InitRerun /\ [][NextTwice]_vars

Spec == Init /\ [][Next]_vars

SpecTwice == InitTwice /\ [][NextTwice]_vars

SpecBulk == InitBulk /\ [][Next]_vars

SpecPatch == InitPatch /\ [][Next]_vars

SpecConfig == InitConfig /\ [][Next]_vars

SpecScore == InitScore /\ [][Next]_vars

\* handle_github_webhook after the review level: owl-ignore ends the
\* delivery, every other level goes on to smart_compress
Deliver ==
  /\ owl_level \notin {"", "owl-ignore"}
  /\ Compress(1)

NextOwl == ExtractOwl \/ Deliver

SpecOwl == InitOwl /\ [][NextOwl]_vars

NextParse == Compress(1) \/ Expire \/ Parse

\* everything compress() and the review worker's parsing work on
compress_vars ==
  <<config, input, cache, pc, handed, objs, prepared, lookup, stored, language_scores,
    scored, allocation, tokens_used, remaining_files, pos, error, result, payload,
    redis_answers, parsed>>

\* handle_github_webhook: owl-ignore ends the delivery
Ignore ==
  /\ hook = "received"
  /\ owl_level = "owl-ignore"
  /\ hook' = "responded"
  /\ response' = "ignored"
  /\ UNCHANGED <<compress_vars, labels, owl_level, diffs, ai_exchange, handled, msg>>

\* handle_github_webhook: fetch_pr_diff; token_ok is whether
\* get_installation_token() returns, which is called outside the try
Fetch ==
  /\ hook = "received"
  /\ owl_level \notin {"", "owl-ignore"}
  /\ \E token_ok \in BOOLEAN :
       IF ~token_ok
       THEN hook' = "responded" /\ response' = "server_error"
       ELSE IF input.files = <<>>   \* if not diff_content
       THEN hook' = "responded" /\ response' = "fetch_error"
       ELSE hook' = "compress" /\ UNCHANGED response
  /\ UNCHANGED <<compress_vars, labels, owl_level, diffs, ai_exchange, handled, msg>>

\* handle_github_webhook: smart_compress and diff.to_dict()
SmartCompress ==
  /\ hook = "compress"
  /\ Compress(1)

\* an exception of compress() leaves the handler
CompressRaised ==
  /\ hook = "compress"
  /\ pc[1] = "raised"
  /\ hook' = "responded"
  /\ response' = "server_error"
  /\ UNCHANGED <<compress_vars, labels, owl_level, diffs, ai_exchange, handled, msg>>

\* the dict handle_github_webhook stores under the diff id
diff_for_storage ==
  [diff_id |-> DiffId, repo_name |-> "o/r", pr_number |-> "7", head_sha |-> "sha",
   owl_level |-> owl_level, pr_title |-> "title", pr_author |-> "author",
   pr_url |-> "html_url", compression |-> payload[1]]

\* variant: the outcome of store_diff is not looked at
StoreDiff_Unchecked ==
  /\ hook = "compress"
  /\ pc[1] = "serialized"
  /\ \E client_ok \in BOOLEAN :
       diffs' = store_diff(client_ok, diffs, DiffId, diff_for_storage).stored
  /\ hook' = "publish"
  /\ UNCHANGED <<compress_vars, labels, owl_level, response, ai_exchange, handled, msg>>

\* handle_github_webhook: store_diff and the test of its outcome
StoreDiff ==
  /\ hook = "compress"
  /\ pc[1] = "serialized"
  /\ \E client_ok \in BOOLEAN :
       LET success == store_diff(client_ok, diffs, DiffId, diff_for_storage) IN
       /\ diffs' = success.stored
       /\ IF success.value
          THEN hook' = "publish" /\ UNCHANGED response
          ELSE hook' = "responded" /\ response' = "store_error"
  /\ UNCHANGED <<compress_vars, labels, owl_level, ai_exchange, handled, msg>>

\* the keywords handle_github_webhook passes to PullRequestData
pr_data_kwargs ==
  [action |-> "opened", pr_number |-> "7", pr_title |-> "title", pr_body |-> "body",
   pr_url |-> "html_url", pr_diff_url |-> "diff_url", pr_author |-> "author",
   repo_name |-> "o/r", repo_url |-> "repo_url", created_at |-> "created_at",
   diff_id |-> DiffId]

\* handle_github_webhook: the message is built and published; channel_ok
\* is whether get_exchange() and publish() succeed
Publish ==
  /\ hook = "publish"
  /\ \E channel_ok \in BOOLEAN :
       IF channel_ok
       THEN /\ ai_exchange' = Append(ai_exchange, PullRequestData(pr_data_kwargs))
            /\ response' = "accepted"
       ELSE /\ response' = "unavailable"
            /\ UNCHANGED ai_exchange
  /\ hook' = "responded"
  /\ UNCHANGED <<compress_vars, labels, owl_level, diffs, handled, msg>>

\* ai_service handle_message on the published message, up to process_event
HandleMessage ==
  /\ Len(ai_exchange) > 0
  /\ handled = ""
  /\ LET event_dict == ai_exchange[1]
         diff_id == dict_get(event_dict, "diff_id")
     IN IF diff_id # "None"
        THEN \E client_ok \in BOOLEAN :
               handled' = IF get_diff(client_ok, diffs, diff_id) # None
                          THEN "process_event" ELSE "diff_not_found"
        ELSE handled' = "diff_id_not_presented"
  /\ UNCHANGED <<compress_vars, labels, owl_level, hook, response, diffs, ai_exchange, msg>>

\* outbound handle_github, the try block: raised is the exception of
\* json.loads, get_installation_token or session.post, status the answer
\* of GitHub; the except clause calls msg.nack(requeue=False)
HandleGithub ==
  /\ msg.at = "queued"
  /\ \E raised \in {"", "JSONDecodeError", "ClientResponseError", "ClientError"},
        status \in {201, 403, 422, 500} :
       msg' = IF raised # ""
              THEN [msg EXCEPT !.at = "handled", !.nacked = TRUE]
              ELSE [msg EXCEPT !.at = "handled", !.status = status]
  /\ UNCHANGED <<compress_vars, labels, owl_level, hook, response, diffs, ai_exchange,
                 handled>>

\* the end of  async with msg.process(ignore_processed=True)  when no
\* exception leaves the block: the message is acknowledged unless it was
\* processed already
ProcessExit ==
  /\ msg.at = "handled"
  /\ msg' = [msg EXCEPT !.at = "done",
                         !.acked = IF msg.acked \/ msg.nacked THEN @ ELSE TRUE]
  /\ UNCHANGED <<compress_vars, labels, owl_level, hook, response, diffs, ai_exchange,
                 handled>>

NextService ==
  \/ ExtractOwl
  \/ Ignore
  \/ Fetch
  \/ SmartCompress
  \/ CompressRaised
  \/ StoreDiff
  \/ Publish
  \/ HandleMessage
  \/ HandleGithub
  \/ ProcessExit

\* the intake service, the review worker and the outbound worker
SpecService == InitService /\ [][NextService]_vars

SpecParse == Init /\ [][NextParse]_vars

NextConcurrent == (\E c \in Calls : CompressConcurrently(c)) \/ Expire

SpecConcurrent == InitConcurrent /\ [][NextConcurrent]_vars

NextStall == Compress(1) \/ Expire \/ Stall

\* whether call c can take a step: compress() runs without a pause except at
\* its two awaits, which resume once Redis has answered or failed
CanStep(c) ==
  /\ pc[c] \notin {"raised", "serialized"}
  /\ pc[c] = "idle" => (c = 1 \/ pc[1] \in Finished)
  /\ pc[c] \in {"get_score", "store_rate"} => redis_answers

\* one call against a Redis server that may stop answering
SpecStall == InitSingle /\ [][NextStall]_vars

\* ------------------------------------------------------------------------
\* Properties
\* ------------------------------------------------------------------------
Returned(c) == pc[c] \in {"returned", "serialized"}

BothFinished == pc[1] \in Finished /\ pc[2] \in Finished

\* the FileChange a ScoredFile of call c wraps
FileOf(c, sf) == objs[c][sf.file]

\* the ScoredFile objects of a tier list of call c
TierFiles(c, tier) == [k \in 1..Len(tier) |-> scored[c][tier[k]]]

\* the positions of the input list that pass the binary/generated filter
Surviving == {i \in 1..Len(input.files) :
                ~input.files[i].is_binary /\ ~is_generated(input.files[i].path)}

\* everything a call computed
Outcome(c) ==
  [error |-> error[c], files |-> objs[c], prepared |-> prepared[c],
   language_scores |-> language_scores[c], scored |-> scored[c],
   result |-> result[c]]

\* C1: in every result of compress each input file that is neither binary
\* nor generated is in exactly one of the three tier lists, no other file is
\* in any of them, and the three lengths add up to the number of survivors.
C1_PartitionComplete ==
  \A c \in Calls : Returned(c) =>
    LET placed == result[c].included_full \o result[c].included_summary
                    \o result[c].included_listed
    IN /\ \A i \in Surviving :
            Cardinality({k \in 1..Len(placed) : scored[c][placed[k]].file = i}) = 1
       /\ \A k \in 1..Len(placed) : scored[c][placed[k]].file \in Surviving
       /\ Len(result[c].included_full) + Len(result[c].included_summary)
            + Len(result[c].included_listed) = Cardinality(Surviving)

C1_Witness ==
  /\ Returned(1)
  /\ Cardinality(Surviving) < Len(input.files)
  /\ Len(result[1].included_full) > 0
  /\ Len(result[1].included_listed) > 0

\* the tokens of the files of included_full of call c
FullTokens(c) ==
  SumSeq([k \in 1..Len(result[c].included_full) |->
            FileOf(c, scored[c][result[c].included_full[k]]).tokens])

DefaultFractions ==
  /\ config.full_diff_token_budget = 75
  /\ config.summary_token_budget = 20
  /\ config.listed_token_budget = 5

\* the number of files appended to LISTED after the listed budget ran out
ForceAppended(c) ==
  LET within == ((config.max_tokens * config.listed_token_budget) \div 100) \div 20
  IN IF Len(result[c].included_listed) > within
     THEN Len(result[c].included_listed) - within ELSE 0

\* C3 as stated: under the default config compressed_tokens is at most
\* max_tokens.
C3_WithinMaxTokens ==
  \A c \in Calls : (Returned(c) /\ config = DefaultConfig) =>
    result[c].compressed_tokens <= config.max_tokens

\* C3 amended: under the default fractions the FULL and SUMMARY parts of
\* compressed_tokens stay within their two budgets, and compressed_tokens
\* exceeds max_tokens by at most 20 per file force-appended to LISTED.
C3_WithinMaxTokensPlusForced ==
  \A c \in Calls : (Returned(c) /\ DefaultFractions) =>
    /\ result[c].compressed_tokens - 20 * Len(result[c].included_listed)
         <= (config.max_tokens * 75) \div 100 + (config.max_tokens * 20) \div 100
    /\ result[c].compressed_tokens <= config.max_tokens + 20 * ForceAppended(c)

C3_Witness ==
  /\ Returned(1)
  /\ config = DefaultConfig
  /\ ForceAppended(1) > 0
  /\ result[1].compressed_tokens > config.max_tokens

\* C4: every file in included_full scores at least as high as every file in
\* included_summary, and every file in included_summary at least as high as
\* every file in included_listed.
C4_TierMonotonic ==
  \A c \in Calls : Returned(c) =>
    LET full == TierFiles(c, result[c].included_full)
        summary == TierFiles(c, result[c].included_summary)
        listed == TierFiles(c, result[c].included_listed)
    IN /\ \A a \in 1..Len(full) : \A b \in 1..Len(summary) :
            full[a].importance_score >= summary[b].importance_score
       /\ \A b \in 1..Len(summary) : \A l \in 1..Len(listed) :
            summary[b].importance_score >= listed[l].importance_score

C4_Witness ==
  /\ Returned(1)
  /\ Len(result[1].included_full) > 0
  /\ Len(result[1].included_summary) > 0
  /\ Len(result[1].included_listed) > 0
  /\ \E k \in 1..Len(scored[1]) : scored[1][k].file # prepared[1][k]

\* C5: two compress calls for the same pull request that both miss the
\* cache compute the same scores, tiers and orders, also when the second
\* call is handed the FileChange objects the first call mutated.
C5_Deterministic ==
  (BothFinished /\ lookup[1] # "hit" /\ lookup[2] # "hit") => Outcome(1) = Outcome(2)

C5_Witness ==
  /\ BothFinished
  /\ lookup[1] \in {"miss", "fail"}
  /\ lookup[2] \in {"miss", "fail"}
  /\ handed[2] = "same"
  /\ Returned(2)
  /\ \E i \in 1..Len(input.files) : objs[1][i].patch # input.files[i].patch

\* C6 as stated: with an empty or null file list, or when the filter leaves
\* no file, compress raises nothing and returns three empty tier lists.
C6_EmptyResult ==
  \A c \in Calls :
    (pc[c] \in Finished /\ (input.null \/ Surviving = {})) =>
      /\ pc[c] # "raised"
      /\ IF pc[c] = "raised" THEN FALSE
         ELSE /\ Len(result[c].included_full) = 0
              /\ Len(result[c].included_summary) = 0
              /\ Len(result[c].included_listed) = 0

WorkingEmptyCache(c) == lookup[c] = "miss" /\ stored[c] = "ok"

CacheFailed(c) == lookup[c] = "fail" \/ stored[c] = "fail"

\* C7: a failing cache never makes compress fail: no call ends with a cache
\* error, after a failed lookup the priorities are the ones computed from
\* the files, and a call that met a failure ends like a call with a working,
\* empty cache.
C7_CacheFailureHarmless ==
  /\ \A c \in Calls : error[c] # "RedisError"
  /\ \A c \in Calls :
       (lookup[c] = "fail" /\ pc[c] \notin {"idle", "get_score"}) =>
         language_scores[c] = _analyze_file_list(PreparedFiles(c))
  /\ \A a, b \in Calls :
       (BothFinished /\ WorkingEmptyCache(a) /\ CacheFailed(b)) => Outcome(a) = Outcome(b)

C7_Witness ==
  /\ BothFinished
  /\ WorkingEmptyCache(1)
  /\ lookup[2] = "fail"
  /\ stored[2] = "fail"
  /\ Returned(2)

\* the priority _score_files uses for a file of call c
PriorityUsed(c, sf) ==
  IF FileOf(c, sf).language \in DOMAIN language_scores[c]
  THEN language_scores[c][FileOf(c, sf).language] ELSE 500

C8_Scenario ==
  /\ Returned(1)
  /\ ~input.null
  /\ input.files = <<SessionPy>>
  /\ config = DefaultConfig
  /\ lookup[1] # "hit"

RemovedCritical(c) ==
  {k \in 1..Len(scored[c]) :
     FileOf(c, scored[c][k]).status = "removed" /\ is_critical(FileOf(c, scored[c][k]).path)}

\* C9 as stated: every removed file on a critical path scores at least
\* critical_pattern_bonus + 30.
C9_CriticalDeletionFloor ==
  \A c \in Calls : \A k \in RemovedCritical(c) :
    scored[c][k].importance_score >= config.critical_pattern_bonus + 30000

\* C9 amended: a removed file on a critical path scores at least
\* critical_pattern_bonus + 30 when its path is neither a test nor a doc
\* path; on a test path at least test_file_penalty * critical_pattern_bonus
\* + 30, on a doc (and not test) path at least doc_file_penalty *
\* critical_pattern_bonus + 30.
C9_CriticalDeletionFloorByType ==
  \A c \in Calls : \A k \in RemovedCritical(c) :
    LET path == FileOf(c, scored[c][k]).path
        floor == IF is_test(path)
                 THEN (config.critical_pattern_bonus * config.test_file_penalty) \div 10
                 ELSE IF is_doc(path)
                 THEN (config.critical_pattern_bonus * config.doc_file_penalty) \div 10
                 ELSE config.critical_pattern_bonus
    IN scored[c][k].importance_score >= floor + 30000

C9_Witness ==
  /\ Returned(1)
  /\ \E k \in RemovedCritical(1) :
       /\ is_test(FileOf(1, scored[1][k]).path)
       /\ scored[1][k].importance_score < config.critical_pattern_bonus + 30000
  /\ \E k \in RemovedCritical(1) :
       /\ ~is_test(FileOf(1, scored[1][k]).path)
       /\ ~is_doc(FileOf(1, scored[1][k]).path)

\* C10: to_dict() reports total_files and the three tier counts equal to
\* the number of prepared files and the lengths of the three tier lists,
\* also after the statistics map is merged over them.
C10_DictCounts ==
  \A c \in Calls : pc[c] = "serialized" =>
    /\ payload[c].stats.total_files = Len(prepared[c])
    /\ payload[c].stats.total_files = Len(result[c].original_files)
    /\ payload[c].stats.included_full = Len(result[c].included_full)
    /\ payload[c].stats.included_summary = Len(result[c].included_summary)
    /\ payload[c].stats.included_listed = Len(result[c].included_listed)

C10_Witness ==
  /\ pc[1] = "serialized"
  /\ Len(prepared[1]) < Len(input.files)
  /\ Len(result[1].included_full) > 0
  /\ Len(result[1].included_summary) # Len(result[1].included_listed)

\* whether line j of a patch is outside every hunk, or inside a hunk (from
\* its @@ line to the line before the next @@ line or the end) that holds a
\* line starting with + and not with +++
InKeptHunk(lines, j) ==
  LET heads == {h \in 1..j : line_startswith(lines[h], "@@")}
  IN IF heads = {} THEN TRUE
     ELSE LET h == CHOOSE x \in heads : \A y \in heads : y <= x
              later == {k \in (j + 1)..Len(lines) : line_startswith(lines[k], "@@")}
              e == IF later = {} THEN Len(lines)
                   ELSE (CHOOSE x \in later : \A y \in later : x <= y) - 1
          IN \E k \in h..e : /\ line_startswith(lines[k], "+")
                             /\ ~line_startswith(lines[k], "+++")

\* the lines of a patch that are kept, in their order
KeptLines(lines) ==
  LET idx == SelectSeq([j \in 1..Len(lines) |-> j], LAMBDA j : InKeptHunk(lines, j))
  IN [k \in 1..Len(idx) |-> lines[idx[k]]]

\* the prepared non-critical files of call c
Rewritten(c) ==
  {i \in 1..Len(objs[c]) : ~Skipped(input.files[i]) /\ ~is_critical(input.files[i].path)}

\* C11: remove_deletion_only_hunks keeps a hunk iff it holds a line starting
\* with + and not with +++, keeps every line before the first @@ line, and
\* keeps the order; the patch with a preamble, a hunk of only - lines and a
\* hunk with + and - lines becomes the preamble plus the second hunk.
C11_KeepsHunksWithAdditions ==
  \A c \in Calls : \A i \in Rewritten(c) :
    LET before == input.files[i].patch
        kept == KeptLines(before)
    IN /\ objs[c][i].patch = (IF kept = <<>> THEN <<Ln("")>> ELSE kept)
       /\ before = TwoHunkPatch =>
            objs[c][i].patch = SubSeq(TwoHunkPatch, 1, 2) \o SubSeq(TwoHunkPatch, 6, 9)

C11_Witness ==
  /\ Returned(1)
  /\ input.files[1].patch = TwoHunkPatch
  /\ Len(objs[1][1].patch) = 6

Allocating(c) == pc[c] \in {"alloc_full", "alloc_summary", "alloc_listed"}

\* C12 as stated: _allocate_to_tiers never runs with a negative max_tokens,
\* a negative tier fraction or tier fractions summing to more than 1.0,
\* such a config being rejected at construction.
C12_BadConfigRejected ==
  \A c \in Calls : Allocating(c) =>
    /\ config.max_tokens >= 0
    /\ config.full_diff_token_budget >= 0
    /\ config.summary_token_budget >= 0
    /\ config.listed_token_budget >= 0
    /\ config.full_diff_token_budget + config.summary_token_budget
         + config.listed_token_budget <= 100

\* C13 as stated: compress always terminates, the cache lookup and the
\* cache store each being abandoned after a bounded wait: at every moment
\* the call has ended or can take its next step, whatever Redis does.
C13_Terminates == pc[1] \in Finished \/ CanStep(1)

MatchesRaw(path, patterns) == \E pattern \in patterns : contains(path, pattern)

\* whether some pattern occurs in the lower-cased path
MatchesLowered(path, patterns) == \E pattern \in patterns : contains(lower(path), pattern)

\* the scored files of call c whose path is path
ScoredAt(c, path) == {k \in 1..Len(scored[c]) : FileOf(c, scored[c][k]).path = path}

\* C15 as stated: is_critical is case-insensitive while is_test, is_doc and
\* is_generated are case-sensitive; "AUTH/Login.py" is critical and
\* "TEST_foo.py" is not a test file and gets no test penalty.
C15_OnlyCriticalIgnoresCase ==
  \A c \in Calls :
    /\ \A k \in 1..Len(scored[c]) :
         LET path == FileOf(c, scored[c][k]).path
         IN /\ scored[c][k].is_critical = MatchesLowered(path, CRITICAL_PATTERNS)
            /\ scored[c][k].is_test = MatchesRaw(path, TEST_PATTERNS)
            /\ scored[c][k].is_doc = MatchesRaw(path, DOC_PATTERNS)
    /\ \A k \in ScoredAt(c, "AUTH/Login.py") : scored[c][k].is_critical
    /\ \A k \in ScoredAt(c, "TEST_foo.py") :
         ~scored[c][k].is_test /\ scored[c][k].type_penalty = 0

\* C15 amended: is_critical and is_test are case-insensitive, is_doc and
\* is_generated case-sensitive; "AUTH/Login.py" is critical, "TEST_foo.py"
\* is a test file and gets the test penalty, "Docs/guide.py" is no doc file
\* and "DIST/app.MIN.JS" is not filtered out as generated.
C15_CriticalAndTestIgnoreCase ==
  \A c \in Calls :
    /\ \A k \in 1..Len(scored[c]) :
         LET path == FileOf(c, scored[c][k]).path
         IN /\ scored[c][k].is_critical = MatchesLowered(path, CRITICAL_PATTERNS)
            /\ scored[c][k].is_test = MatchesLowered(path, TEST_PATTERNS)
            /\ scored[c][k].is_doc = MatchesRaw(path, DOC_PATTERNS)
    /\ pc[c] \notin {"idle", "raised"} =>
         \A i \in 1..Len(input.files) :
           (\E k \in 1..Len(prepared[c]) : prepared[c][k] = i)
             <=> (~input.files[i].is_binary
                    /\ ~MatchesRaw(input.files[i].path, GENERATED_PATTERNS))
    /\ \A k \in ScoredAt(c, "AUTH/Login.py") : scored[c][k].is_critical
    /\ \A k \in ScoredAt(c, "TEST_foo.py") :
         /\ scored[c][k].is_test
         /\ scored[c][k].type_penalty = -(1000 - 100 * config.test_file_penalty)
    /\ \A k \in ScoredAt(c, "Docs/guide.py") : ~scored[c][k].is_doc
    /\ pc[c] \notin {"idle", "raised"} /\ Len(input.files) = 1
         /\ input.files[1].path = "DIST/app.MIN.JS" => Len(prepared[c]) = 1

C15_Witness ==
  /\ Returned(1)
  /\ ScoredAt(1, "TEST_foo.py") # {}

\* the owl labels of the pull request, highest priority first
OwlOrder == <<"owl-ignore", "owl-expert", "owl-deep", "owl-standard", "owl-quick">>

\* the names of the labels of the pull request
LabelNames ==
  IF labels.null THEN {}
  ELSE {labels.list[i].name : i \in {j \in 1..Len(labels.list) : labels.list[j].dict}}

\* C16 as stated: extract_owl_labels returns the highest-priority owl label
\* present (owl-ignore > owl-expert > owl-deep > owl-standard > owl-quick),
\* and "owl-standard" when the pull request carries no owl label.
C16_HighestOrStandard ==
  owl_level # "" =>
    LET present == {k \in 1..Len(OwlOrder) : OwlOrder[k] \in LabelNames}
    IN IF present = {} THEN owl_level = "owl-standard"
       ELSE owl_level = OwlOrder[CHOOSE k \in present : \A j \in present : k <= j]

\* the filenames of a list of parsed files or snippets
Filenames(entries) == {entries[k].filename : k \in 1..Len(entries)}

\* the first n lines of a patch that start with sign and not with header,
\* the sign cut off; the patch text may end with a newline
SnippetText(patch, sign, header, n) ==
  LET lines == IF LineLen(patch[Len(patch)]) = 0 THEN SubSeq(patch, 1, Len(patch) - 1)
               ELSE patch
      idx == SelectSeq([j \in 1..Len(lines) |-> j],
                       LAMBDA j : LineHead(lines[j], Len(sign)) = sign
                                    /\ LineHead(lines[j], Len(header)) # header)
      cut == [k \in 1..Min(n, Len(idx)) |->
                [s |-> SubSeq(lines[idx[k]].s, 2, Len(lines[idx[k]].s)),
                 pad |-> lines[idx[k]].pad]]
  IN IF cut = <<>> THEN <<Ln("")>> ELSE cut

\* C17: parse_compressed_diff returns at most max_files files, the first
\* max_files full-tier entries and then summary-tier entries for the slots
\* left; each returned full-tier file with a non-empty patch has a snippet
\* with its + lines and its - lines (up to max_lines_per_file each), each
\* returned summary-tier file a snippet saying "Summary only", and no
\* listed-tier path is among the files or the snippets.
C17_ParsedFilesAndSnippets ==
  parsed # None =>
    LET full == result[1].included_full
        summary == result[1].included_summary
        listed == result[1].included_listed
        nf == Min(parsed.max_files, Len(full))
        ns == Min(parsed.max_files - nf, Len(summary))
    IN /\ Len(parsed.files) <= parsed.max_files
       /\ Len(parsed.files) = nf + ns
       /\ \A k \in 1..nf :
            LET f == FileOf(1, scored[1][full[k]])
            IN /\ parsed.files[k].filename = f.path
               /\ TextLen(f.patch) > 0 =>
                    \E j \in 1..Len(parsed.snippets) :
                      /\ parsed.snippets[j].filename = f.path
                      /\ parsed.snippets[j].added_text
                           = SnippetText(f.patch, "+", "+++", parsed.max_lines_per_file)
                      /\ parsed.snippets[j].removed_text
                           = SnippetText(f.patch, "-", "---", parsed.max_lines_per_file)
       /\ \A k \in 1..ns :
            LET f == FileOf(1, scored[1][summary[k]])
            IN /\ parsed.files[nf + k].filename = f.path
               /\ \E j \in 1..Len(parsed.snippets) :
                    /\ parsed.snippets[j].filename = f.path
                    /\ contains(parsed.snippets[j].added_text[1].s, "Summary only")
       /\ \A k \in 1..Len(listed) :
            FileOf(1, scored[1][listed[k]]).path
              \notin Filenames(parsed.files) \cup Filenames(parsed.snippets)

C17_Witness ==
  /\ parsed # None
  /\ parsed.max_files = 2
  /\ Len(result[1].included_full) = 1
  /\ Len(result[1].included_summary) = 1
  /\ Len(result[1].included_listed) = 1
  /\ Len(parsed.files) = 2
  /\ Len(parsed.snippets) = 2

\* priorities.get(language, 50), in tenths
PriorityOr50(priorities, language) ==
  IF language \in DOMAIN priorities THEN priorities[language] ELSE 500

\* the score the formula of C18 gives a file, in thousandths: bonus and
\* weights are in thousandths, the priority, multiplier and penalties in tenths
FormulaScore(file, priorities) ==
  LET critical == MatchesLowered(file.path, CRITICAL_PATTERNS)
      sum == (IF critical THEN config.critical_pattern_bonus ELSE 0)
               + PriorityOr50(priorities, file.language)
                   * config.language_bonus_multiplier * 10
               + Min(file.additions * config.additions_weight, 20000)
               + Min(file.deletions * config.deletions_weight, 10000)
      penalised == IF MatchesLowered(file.path, TEST_PATTERNS)
                   THEN (sum * config.test_file_penalty) \div 10
                   ELSE IF MatchesRaw(file.path, DOC_PATTERNS)
                   THEN (sum * config.doc_file_penalty) \div 10
                   ELSE sum
  IN penalised + (IF file.status = "removed" /\ critical THEN 30000 ELSE 0)

\* C18: the importance_score _score_files gives a file is (critical bonus
\* if the path is critical) + priorities.get(language, 50) * multiplier
\* + min(additions * weight, 20) + min(deletions * weight, 10), times the
\* test penalty if the path is a test path, otherwise times the doc penalty
\* if it is a doc path, plus 30 if the file is removed and critical.
C18_ScoreFormula ==
  \A c \in Calls : \A k \in 1..Len(scored[c]) :
    scored[c][k].importance_score
      = FormulaScore(FileOf(c, scored[c][k]), language_scores[c])

\* a removed file whose path is critical, a test path and a doc path, with
\* additions over the cap, scored with priorities that hold its language
C18_Witness ==
  /\ Returned(1)
  /\ \E k \in ScoredAt(1, "tests/auth/README.md") :
       LET file == FileOf(1, scored[1][k])
       IN /\ file.status = "removed"
          /\ file.additions = 250
          /\ file.language \in DOMAIN language_scores[1]
          /\ scored[1][k].importance_score
               = ((50000 + language_scores[1][file.language] * 30 + 20000
                     + Min(file.deletions * 50, 10000)) * 7) \div 10 + 30000

\* the files analyze_repository counts: handed over by compress, not on the
\* skip-list, of a known language
CountedFiles(c) ==
  SelectSeq(PreparedFiles(c),
            LAMBDA file : /\ ~(\E pattern \in skip_patterns : contains(file.path, pattern))
                          /\ file.language # "unknown")

\* additions + deletions over the counted files of one language
LanguageLines(c, language) ==
  LET files == CountedFiles(c)
  IN SumSeq([k \in 1..Len(files) |->
               IF files[k].language = language
               THEN files[k].additions + files[k].deletions ELSE 0])

\* additions + deletions over all counted files
CountedLines(c) ==
  LET files == CountedFiles(c)
  IN SumSeq([k \in 1..Len(files) |-> files[k].additions + files[k].deletions])

\* C19 as stated: on a cache miss with at least one counted file, the
\* priority of each language is 50 + 0.5 * (lines of the language / lines
\* of all counted files) * 100 rounded to one decimal, and so lies between
\* 50 and 100.
C19_ShareOfLines ==
  \A c \in Calls :
    lookup[c] = "miss" /\ Len(CountedFiles(c)) > 0 /\ CountedLines(c) > 0 =>
      \A language \in DOMAIN language_scores[c] :
        /\ language_scores[c][language]
             = RoundHalfEven(500 * CountedLines(c) + 500 * LanguageLines(c, language),
                             CountedLines(c))
        /\ language_scores[c][language] >= 500
        /\ language_scores[c][language] <= 1000

\* C20 as stated: on a cache miss analyze_repository returns the default
\* table (python 70, html 60, json 40, markdown 30, text 20) when the file
\* list is empty and when no file of a non-empty list is counted; it never
\* returns an empty mapping.
C20_DefaultWhenNothingCounted ==
  \A c \in Calls :
    lookup[c] = "miss" =>
      /\ Len(CountedFiles(c)) = 0 =>
           /\ language_scores[c] = _get_default_priorities
           /\ language_scores[c]["python"] = 700
           /\ language_scores[c]["html"] = 600
           /\ language_scores[c]["json"] = 400
           /\ language_scores[c]["markdown"] = 300
           /\ language_scores[c]["text"] = 200
      /\ DOMAIN language_scores[c] # {}

\* C21 as stated: on a miss analyze_repository writes the mapping to the
\* cache if and only if it was computed from the files of the pull request;
\* the default table of an empty file list is never written.  On a hit the
\* cached mapping is returned and nothing is written.
C21_OnlyComputedCached ==
  \A c \in Calls :
    /\ stored[c] = "ok" => lookup[c] \in {"miss", "fail"} /\ Len(prepared[c]) > 0
    /\ stored[c] = "ok" => language_scores[c] # _get_default_priorities
    /\ lookup[c] \in {"miss", "fail"} /\ Len(prepared[c]) > 0 /\ pc[c] \in {"score", "returned"}
         => stored[c] # "none"
    /\ lookup[c] = "hit" => stored[c] = "none"

\* whether the first pass of call c is over
FullPassOver(c) ==
  pc[c] \in {"alloc_summary", "alloc_listed", "stats", "returned", "serialized"}

\* file.tokens summed over the first n files of the sorted list
PrefixTokens(c, n) ==
  SumSeq([k \in 1..n |-> FileOf(c, scored[c][k]).tokens])

\* the length of the longest prefix of the sorted list within the budget
LongestPrefix(c, budget) ==
  CHOOSE n \in 0..Len(scored[c]) :
    /\ PrefixTokens(c, n) <= budget
    /\ \A m \in (n + 1)..Len(scored[c]) : PrefixTokens(c, m) > budget

\* C22: included_full is the longest prefix of the score-sorted list whose
\* file.tokens sum to at most floor(max_tokens * full_diff_token_budget);
\* no file after the first one that does not fit is placed in FULL.
C22_FullIsLongestPrefix ==
  \A c \in Calls :
    FullPassOver(c) =>
      LET budget == (config.max_tokens * config.full_diff_token_budget) \div 100
          n == LongestPrefix(c, budget)
      IN /\ allocation[c].full = [k \in 1..n |-> k]
         /\ \A k \in 1..Len(scored[c]) : scored[c][k].inclusion_tier = "full" <=> k <= n
         /\ Returned(c) => result[c].included_full = [k \in 1..n |-> k]

\* a file after the break point that would have fitted on its own
C22_Witness ==
  /\ Returned(1)
  /\ Len(result[1].included_full) > 0
  /\ \E k \in 1..Len(scored[1]) :
       /\ k > Len(result[1].included_full) + 1
       /\ tokens_used[1].full + FileOf(1, scored[1][k]).tokens
            <= (config.max_tokens * config.full_diff_token_budget) \div 100

\* whether the second pass of call c is over
SummaryPassOver(c) == pc[c] \in {"alloc_listed", "stats", "returned", "serialized"}

\* the files of the sorted list not placed in FULL, in sorted order
NotInFull(c) ==
  SelectSeq([i \in 1..Len(scored[c]) |-> i],
            LAMBDA i : \A k \in 1..Len(allocation[c].full) : allocation[c].full[k] # i)

\* the estimated summary cost of the i-th file of the sorted list
SummaryCost(c, i) ==
  LET file == FileOf(c, scored[c][i])
      cost == 50 + (IF MatchesLowered(file.path, CRITICAL_PATTERNS) THEN 100 ELSE 0)
                + 10 * Len(extract_function_signatures(file.patch, file.language))
  IN IF cost < 200 THEN cost ELSE 200

\* the summary cost summed over the first n files of a list of files
PrefixCost(c, files, n) == SumSeq([k \in 1..n |-> SummaryCost(c, files[k])])

\* C23: included_summary is the longest prefix of the files not placed in
\* FULL whose estimated summary costs sum to at most
\* floor(max_tokens * summary_token_budget), the cost of a file being
\* min(50 + (100 if critical) + 10 * number of signatures, 200); the same
\* estimate enters compressed_tokens.
C23_SummaryIsLongestPrefix ==
  \A c \in Calls :
    SummaryPassOver(c) =>
      LET budget == (config.max_tokens * config.summary_token_budget) \div 100
          rest == NotInFull(c)
          n == CHOOSE n \in 0..Len(rest) :
                 /\ PrefixCost(c, rest, n) <= budget
                 /\ \A m \in (n + 1)..Len(rest) : PrefixCost(c, rest, m) > budget
      IN /\ allocation[c].summary = SubSeq(rest, 1, n)
         /\ Returned(c) =>
              /\ result[c].included_summary = SubSeq(rest, 1, n)
              /\ result[c].compressed_tokens
                   = PrefixTokens(c, Len(result[c].included_full))
                       + PrefixCost(c, rest, n)
                       + 20 * Len(result[c].included_listed)

\* a summary tier holding a file with signatures, cut before a file that is
\* only listed
C23_Witness ==
  /\ Returned(1)
  /\ Len(result[1].included_listed) > 0
  /\ \E k \in 1..Len(result[1].included_summary) :
       SummaryCost(1, result[1].included_summary[k]) \notin {50, 150}

\* the members of a list of references
Members(refs) == {refs[k] : k \in 1..Len(refs)}

\* the SUMMARY pass goes over no file of the FULL pass, the LISTED pass over
\* no file of the two others, and after the passes every file has a tier
PassesDisjoint ==
  \A c \in Calls :
    /\ pc[c] = "alloc_summary" =>
         Members(remaining_files[c]) \cap Members(allocation[c].full) = {}
    /\ pc[c] = "alloc_listed" =>
         Members(remaining_files[c])
           \cap (Members(allocation[c].full) \cup Members(allocation[c].summary)) = {}
    /\ pc[c] \in {"stats", "returned", "serialized"} =>
         \A k \in 1..Len(scored[c]) :
           scored[c][k].inclusion_tier \in {"full", "summary", "listed"}

\* a step of an allocation sets a tier only where none was set and changes
\* no tier that was set
TierSetOnce ==
  \A c \in Calls :
    Allocating(c) =>
      /\ Len(scored'[c]) = Len(scored[c])
      /\ \A k \in 1..Len(scored[c]) :
           /\ scored[c][k].inclusion_tier # "None" =>
                scored'[c][k].inclusion_tier = scored[c][k].inclusion_tier
           /\ scored'[c][k].inclusion_tier \in {"None", "full", "summary", "listed"}

\* C24: during one allocation every ScoredFile's inclusion_tier goes from
\* unset to FULL, SUMMARY or LISTED exactly once and never changes again; a
\* file of an earlier pass is not examined by a later pass, and when the
\* allocation ends no file has an unset tier.
C24_TierAssignedOnce == []PassesDisjoint /\ [][TierSetOnce]_vars

\* the third pass at work after the two others have each placed a file
C24_Witness ==
  /\ pc[1] = "alloc_listed"
  /\ pos[1] > 1
  /\ Len(allocation[1].full) > 0
  /\ Len(allocation[1].summary) > 0
  /\ Len(allocation[1].listed) > 0

\* whether a list of references into the sorted list goes upwards
Upwards(refs) == \A k \in 1..(Len(refs) - 1) : refs[k] < refs[k + 1]

\* C25: the scored files are in descending order of importance_score, files
\* of equal score in the order they had in the input list, in the sorted
\* list and inside each tier list.
C25_DescendingAndStable ==
  \A c \in Calls :
    /\ \A k \in 1..(Len(scored[c]) - 1) :
         \/ scored[c][k].importance_score > scored[c][k + 1].importance_score
         \/ /\ scored[c][k].importance_score = scored[c][k + 1].importance_score
            /\ scored[c][k].file < scored[c][k + 1].file
    /\ Upwards(allocation[c].full)
    /\ Upwards(allocation[c].summary)
    /\ Upwards(allocation[c].listed)
    /\ Returned(c) =>
         /\ Upwards(result[c].included_full)
         /\ Upwards(result[c].included_summary)
         /\ Upwards(result[c].included_listed)

\* files of equal score next to each other in the summary tier and in the
\* listed tier
C25_Witness ==
  /\ Returned(1)
  /\ \E k \in 1..(Len(result[1].included_summary) - 1) :
       scored[1][result[1].included_summary[k]].importance_score
         = scored[1][result[1].included_summary[k + 1]].importance_score
  /\ \E k \in 1..(Len(result[1].included_listed) - 1) :
       scored[1][result[1].included_listed[k]].importance_score
         = scored[1][result[1].included_listed[k + 1]].importance_score

\* whether _prepare_files of call c has gone over the list
PreparationDone(c) ==
  pc[c] # "idle" /\ ~input.null /\ Len(objs[c]) = Len(input.files)

\* whether the i-th file of the list passed the filter of _prepare_files
Survived(c, i) == \E k \in 1..Len(prepared[c]) : prepared[c][k] = i

\* C26: preparation leaves the patch of a critical file as received and
\* replaces the patch of any other file by remove_deletion_only_hunks(patch);
\* file.tokens is the token count of the resulting patch; path, status,
\* additions and deletions stay as they were.
C26_PreparationEffect ==
  PreparationDone(1) =>
    \A i \in 1..Len(input.files) :
      LET before == input.files[i]
          after == objs[1][i]
      IN /\ after.path = before.path
         /\ after.status = before.status
         /\ after.additions = before.additions
         /\ after.deletions = before.deletions
         /\ Survived(1, i) =>
              /\ after.patch = IF MatchesLowered(before.path, CRITICAL_PATTERNS)
                               THEN before.patch
                               ELSE remove_deletion_only_hunks(before.patch)
              /\ after.tokens = TextLen(after.patch) \div 4

\* a critical file that kept its deletion-only hunk next to another file
\* that lost lines
C26_Witness ==
  /\ Returned(1)
  /\ \E i, j \in 1..Len(input.files) :
       /\ Survived(1, i) /\ Survived(1, j)
       /\ MatchesLowered(input.files[i].path, CRITICAL_PATTERNS)
       /\ remove_deletion_only_hunks(input.files[i].patch) # input.files[i].patch
       /\ objs[1][i].patch = input.files[i].patch
       /\ ~MatchesLowered(input.files[j].path, CRITICAL_PATTERNS)
       /\ objs[1][j].patch # input.files[j].patch

\* C27: remove_deletion_only_hunks(remove_deletion_only_hunks(p)) equals
\* remove_deletion_only_hunks(p) for every patch p, so preparing an already
\* prepared FileChange again changes neither its patch nor its tokens.
C27_Idempotent ==
  /\ PreparationDone(1) =>
       \A i \in 1..Len(input.files) :
         remove_deletion_only_hunks(remove_deletion_only_hunks(input.files[i].patch))
           = remove_deletion_only_hunks(input.files[i].patch)
  /\ PreparationDone(2) /\ handed[2] = "same" =>
       \A i \in 1..Len(input.files) :
         /\ objs[2][i].patch = objs[1][i].patch
         /\ objs[2][i].tokens = objs[1][i].tokens

\* the second call was handed the prepared object of the first, whose
\* patch had lost a hunk and kept another
C27_Witness ==
  /\ Returned(2)
  /\ handed[2] = "same"
  /\ objs[1][1].patch # input.files[1].patch
  /\ TextLen(objs[1][1].patch) > 0
  /\ \E k \in 1..Len(objs[2][1].patch) : line_startswith(objs[2][1].patch[k], "@@")

\* C28: a message is published to the ai_service exchange only after the
\* compressed diff was stored in Redis; when the fetch returns nothing or
\* store_diff fails the handler answers with an error and publishes nothing.
C28_PublishedOnlyAfterStore ==
  /\ Len(ai_exchange) > 0 => diffs # None /\ diffs.key = DiffId
  /\ hook \in {"publish"} \/ response = "accepted" => diffs # None
  /\ response \in {"fetch_error", "store_error"} => ai_exchange = <<>>
  /\ hook = "responded" /\ diffs = None /\ owl_level # "owl-ignore" =>
       /\ response \in {"fetch_error", "store_error", "server_error"}
       /\ ai_exchange = <<>>
  /\ hook = "responded" /\ input.files = <<>> /\ response # "server_error"
       /\ owl_level # "owl-ignore" => response = "fetch_error"

\* the handler accepted the delivery: the diff is stored and one message
\* is published
C28_Witness ==
  /\ response = "accepted"
  /\ Len(ai_exchange) = 1
  /\ diffs # None
  /\ diffs.content.compression = payload[1]

\* C29 as stated: every message the handler publishes carries the diff_id
\* under which the diff was stored, and handle_message reaches
\* process_event with it instead of dropping the message.
C29_MessageCarriesDiffId ==
  /\ \A k \in 1..Len(ai_exchange) :
       /\ "diff_id" \in DOMAIN ai_exchange[k]
       /\ diffs # None => ai_exchange[k]["diff_id"] = diffs.key
  /\ handled # "diff_id_not_presented"

\* C30 as stated: handle_github acknowledges a message only when GitHub
\* answered 201; when handling fails (malformed body, token failure, another
\* answer than 201) the message is rejected without requeue; no message is
\* both acknowledged and rejected.
C30_AckOnlyWhenPosted ==
  /\ msg.acked => msg.status = 201
  /\ msg.at = "done" /\ msg.status # 201 => msg.nacked
  /\ ~(msg.acked /\ msg.nacked)

====
